---------------------------- MODULE Spec2Model ----------------------------
(***************************************************************************)
(* Liquid-democracy voting server: the ephemeral voting store              *)
(* (RedisVotingOps), the delegation resolver (DelegationEngine), the       *)
(* tally engine (FinalVoteEngine), the delegate route and the proposal     *)
(* scheduler.                                                              *)
(*                                                                         *)
(* Conventions.  A JS object / Redis hash is a TLA+ function whose DOMAIN  *)
(* is the set of keys that are present.  Wallets are positive integers; a  *)
(* mixed-case spelling of wallet w is the integer -w, and toLowerCase maps *)
(* it back to w.  None (0) stands for JS null / undefined.  A stored vote  *)
(* is the string form of the option number, written <<"str", n>>.          *)
(***************************************************************************)
EXTENDS Integers, Sequences, FiniteSets, TLC

VARIABLES
    votes,            \* [proposal -> hash wallet -> option string]
    delegations,      \* [proposal -> hash delegator -> delegate]
    participants,     \* [proposal -> set of wallets]
    cooldown,         \* set of <<wallet, proposal>> cooldown keys not yet expired
    resolutionAudit,  \* [proposal -> row of delegation_resolution_audit]
    tallyAudit,       \* [proposal -> row of final_vote_results_audit]
    now,              \* wall-clock time, in hours
    deadline,         \* [proposal -> voting_deadline, in hours]
    lastOp,           \* the operation that ran last, with what it returned
    probe,            \* input and output of a pure function under test
    inflight,         \* [handler -> the request it is serving]; in SpecConc handler w
                      \* serves the requests of wallet w
    sched,            \* the proposal scheduler: timers, cycle phase, calls made
    meta,             \* [proposal -> its status and deadline string keys]
    snapshots         \* table redis_snapshots: its rows, oldest first

storeVars == <<votes, delegations, participants, cooldown>>
auditVars == <<resolutionAudit, tallyAudit>>
clockVars == <<now, deadline>>
backupVars == <<meta, snapshots>>
restVars == <<probe, inflight, sched, backupVars>>

----------------------------------------------------------------------------
(* Bounds of the model *)

NumWallets == 3
NumOptions == 2
NumProposals == 2
MaxPower == 2

Wallets == 1..NumWallets
Options == 1..NumOptions
Proposals == 1..NumProposals
\* The proposal whose store the store-level specifications exercise: the keys
\* of different proposals are disjoint (REDIS_KEYS prefixes each with the id).
StoreProposals == {1}

None == 0

----------------------------------------------------------------------------
(* Values and conversions *)

\* the spellings under which the wallets in W arrive: lower-case (w), and for
\* the first wallet also mixed-case (-1)
Spellings(W) == W \cup {0 - w : w \in W \cap {1}}

toLowerCase(a) == IF a < 0 THEN 0 - a ELSE a

toString(n) == <<"str", n>>

parseInt(s) == s[2]

EmptyMap == [x \in {} |-> None]

\* obj[k] of a JS object: undefined (None) when the key is absent
Lookup(m, k) == IF k \in DOMAIN m THEN m[k] ELSE None

hset(m, k, v) == (k :> v) @@ m

\* the object built from the entries f describes
Entries(f) == f @@ EmptyMap

hdel(m, k) == [x \in (DOMAIN m) \ {k} |-> m[x]]

sadd(s, k) == s \cup {k}

RECURSIVE SumMap(_)
SumMap(m) ==
    IF DOMAIN m = {} THEN 0
    ELSE LET k == CHOOSE x \in DOMAIN m : TRUE
         IN  m[k] + SumMap([x \in (DOMAIN m) \ {k} |-> m[x]])

RECURSIVE SortedSeq(_)
SortedSeq(S) ==
    IF S = {} THEN << >>
    ELSE LET lo == CHOOSE x \in S : \A y \in S : x <= y
         IN  <<lo>> \o SortedSeq(S \ {lo})

----------------------------------------------------------------------------
(* RedisVotingOps: reads *)

\* the keys of hash h, lower-cased, and the key of h filed under w
LowerKeys(h) == {toLowerCase(k) : k \in DOMAIN h}

KeyFor(h, w) == CHOOSE k \in DOMAIN h : toLowerCase(k) = w

\* getAllVotes: every entry under its lower-cased key, the option as a number
getAllVotes(p) ==
    Entries([w \in LowerKeys(votes[p]) |->
                parseInt(votes[p][KeyFor(votes[p], w)])])

\* getAllDelegations: delegator and delegate both lower-cased
ConvertDelegations(h) ==
    Entries([d \in LowerKeys(h) |-> toLowerCase(h[KeyFor(h, d)])])

getAllDelegations(p) == ConvertDelegations(delegations[p])

getAllParticipants(p) == participants[p]

getUserVote(p, a) ==
    IF toLowerCase(a) \in DOMAIN votes[p]
    THEN parseInt(votes[p][toLowerCase(a)])
    ELSE None

getUserDelegation(p, a) == Lookup(delegations[p], toLowerCase(a))

getUserStatus(p, a) ==
    [has_voted |-> getUserVote(p, a) # None,
     has_delegated |-> getUserDelegation(p, a) # None]

checkCooldown(a, p) == <<toLowerCase(a), p>> \in cooldown

----------------------------------------------------------------------------
(* RedisVotingOps.detectCyclesDFS *)

MaxHops == 100

NoCycle == [hasCycle |-> FALSE, cyclePath |-> << >>, reason |-> "none"]

\* what follows the while loop, maxHops being the counter's value on leaving it
AfterWalk(maxHops) ==
    IF maxHops <= 0
    THEN [hasCycle |-> TRUE, cyclePath |-> << >>, reason |-> "chain too long"]
    ELSE NoCycle

\* one test of `while (maxHops-- > 0)` and, when it passes, one turn of the body
\* (the loop's variables are at = [current, path, visited, maxHops])
RECURSIVE DFSWalk(_, _, _)
DFSWalk(sim, delegator, at) ==
    IF ~(at.maxHops > 0) THEN AfterWalk(at.maxHops - 1)
    ELSE IF at.current \in at.visited THEN AfterWalk(at.maxHops - 1)
    ELSE LET nextWallet == Lookup(sim, at.current)
         IN  IF nextWallet = None THEN AfterWalk(at.maxHops - 1)
             ELSE IF nextWallet = delegator
             THEN [hasCycle |-> TRUE, cyclePath |-> Append(at.path, nextWallet),
                   reason |-> "circular delegation"]
             ELSE DFSWalk(sim, delegator,
                          [current |-> nextWallet,
                           path |-> Append(at.path, nextWallet),
                           visited |-> at.visited \cup {at.current},
                           maxHops |-> at.maxHops - 1])

\* a check that looks one edge ahead only: target delegating straight back
detectCyclesDFS_OneHop(p, delegatorWallet, targetWallet) ==
    LET delegator == toLowerCase(delegatorWallet)
        target == toLowerCase(targetWallet)
    IN  IF delegator = target
        THEN [hasCycle |-> TRUE, cyclePath |-> <<delegator>>,
              reason |-> "cannot delegate to yourself"]
        ELSE IF Lookup(getAllDelegations(p), target) = delegator
        THEN [hasCycle |-> TRUE, cyclePath |-> <<target, delegator>>,
              reason |-> "circular delegation"]
        ELSE NoCycle

\* a walk whose recorded path begins at the delegator, not at the target
detectCyclesDFS_PathFromDelegator(p, delegatorWallet, targetWallet) ==
    LET delegator == toLowerCase(delegatorWallet)
        target == toLowerCase(targetWallet)
    IN  IF delegator = target
        THEN [hasCycle |-> TRUE, cyclePath |-> <<delegator>>,
              reason |-> "cannot delegate to yourself"]
        ELSE DFSWalk(hset(getAllDelegations(p), delegator, target), delegator,
                     [current |-> target, path |-> <<delegator, target>>,
                      visited |-> {}, maxHops |-> MaxHops])

detectCyclesDFS(p, delegatorWallet, targetWallet) ==
    LET delegator == toLowerCase(delegatorWallet)
        target == toLowerCase(targetWallet)
    IN  IF delegator = target
        THEN [hasCycle |-> TRUE, cyclePath |-> <<delegator>>,
              reason |-> "cannot delegate to yourself"]
        ELSE DFSWalk(hset(getAllDelegations(p), delegator, target), delegator,
                     [current |-> target, path |-> <<target>>, visited |-> {},
                      maxHops |-> MaxHops])

----------------------------------------------------------------------------
(* DelegationEngine *)

MAX_CHAIN_LENGTH == 100

\* the while loop, on its variables at = [current, path, visited, steps]
RECURSIVE ChainWalk(_, _)
ChainWalk(delegs, at) ==
    IF ~(at.steps < MAX_CHAIN_LENGTH)
    THEN [finalDelegate |-> at.current, path |-> at.path, length |-> Len(at.path)]
    ELSE LET nextDelegate == Lookup(delegs, at.current)
         IN  IF nextDelegate = None \/ nextDelegate \in at.visited
             THEN [finalDelegate |-> at.current, path |-> at.path,
                   length |-> Len(at.path)]
             ELSE ChainWalk(delegs,
                            [current |-> nextDelegate,
                             path |-> Append(at.path, nextDelegate),
                             visited |-> at.visited \cup {nextDelegate},
                             steps |-> at.steps + 1])

\* a resolver that follows one edge only
resolveChainForUser_OneHop(startWallet, delegs) ==
    LET nextDelegate == Lookup(delegs, startWallet)
    IN  IF nextDelegate = None \/ nextDelegate = startWallet
        THEN [finalDelegate |-> startWallet, path |-> <<startWallet>>, length |-> 1]
        ELSE [finalDelegate |-> nextDelegate, path |-> <<startWallet, nextDelegate>>,
              length |-> 2]

resolveChainForUser(startWallet, delegs) ==
    ChainWalk(delegs, [current |-> startWallet, path |-> <<startWallet>>,
                       visited |-> {startWallet}, steps |-> 0])

\* the delegations object of the graph (the engine follows no other part of it)
buildDelegationGraph(delegationMap) == ConvertDelegations(delegationMap)

\* the largest of a non-empty set of numbers
MaxOf(S) == CHOOSE m \in S : \A x \in S : m >= x

\* the loop over Object.keys(delegations): one chainResult per delegator
resolveAllChains(graph) ==
    LET chainResult == Entries([d \in DOMAIN graph |-> resolveChainForUser(d, graph)])
    IN  [delegationResolution |->
             Entries([d \in DOMAIN graph |-> chainResult[d].finalDelegate]),
         auditTrail |->
             Entries([d \in DOMAIN graph |->
                         [path |-> chainResult[d].path,
                          length |-> chainResult[d].length]]),
         longestChainLength |->
             MaxOf({1} \cup {chainResult[d].length : d \in DOMAIN graph})]

calculateVotingPowers(delegationResolution, votesMap) ==
    LET holders == {delegationResolution[d] : d \in DOMAIN delegationResolution}
                   \cup DOMAIN votesMap
        power(w) == Cardinality({d \in DOMAIN delegationResolution :
                                    delegationResolution[d] = w})
                    + (IF w \in DOMAIN votesMap THEN 1 ELSE 0)
    IN  [w \in {h \in holders : power(h) # 0} |-> power(w)]

\* the resolution object built by steps 1-5 of resolveBulkDelegations
Resolution(p) ==
    LET delegationMap == getAllDelegations(p)
        votesMap == getAllVotes(p)
        parts == getAllParticipants(p)
        directVoters == {w \in parts : Lookup(delegationMap, toLowerCase(w)) = None}
        resolved == resolveAllChains(buildDelegationGraph(delegationMap))
    IN  [delegationResolution |-> resolved.delegationResolution,
         votingPowers |-> calculateVotingPowers(resolved.delegationResolution, votesMap),
         totalParticipants |-> Cardinality(parts),
         directVoters |-> Cardinality(directVoters),
         delegators |-> Cardinality(DOMAIN delegationMap),
         longestChain |-> resolved.longestChainLength,
         auditTrail |-> resolved.auditTrail]

\* a row of delegation_resolution_audit: none yet, completed, or error
NoResolutionRow ==
    [status |-> "none", votingPowers |-> EmptyMap, delegationResolution |-> EmptyMap,
     totalParticipants |-> 0, directVoters |-> 0, delegators |-> 0,
     longestChain |-> 0, auditTrail |-> EmptyMap]

saveResolutionAudit(resolution) ==
    [status |-> "completed", votingPowers |-> resolution.votingPowers,
     delegationResolution |-> resolution.delegationResolution,
     totalParticipants |-> resolution.totalParticipants,
     directVoters |-> resolution.directVoters,
     delegators |-> resolution.delegators,
     longestChain |-> resolution.longestChain,
     auditTrail |-> resolution.auditTrail]

ResolutionErrorAudit == [NoResolutionRow EXCEPT !.status = "error"]

\* resolveBulkDelegations(p): redisOk - the three store reads succeed;
\* dbOk - the upsert of the audit row succeeds (a failed upsert is only logged).
\* Gives what the call returns and the row the table holds afterwards.
ResolveOutcome(p, row, redisOk, dbOk) ==
    IF redisOk
    THEN LET resolution == Resolution(p)
         IN  [success |-> TRUE,
              votingPowers |-> resolution.votingPowers,
              row |-> IF dbOk THEN saveResolutionAudit(resolution) ELSE row]
    ELSE [success |-> FALSE,
          votingPowers |-> EmptyMap,
          row |-> IF dbOk THEN ResolutionErrorAudit ELSE row]

----------------------------------------------------------------------------
(* FinalVoteEngine *)

\* proposal.options as proposalDb.getById returns them: option_number 1..n
ProposalOptions(p) == [i \in 1..NumOptions |-> i]

\* a loader that takes the voting powers of whatever row the table holds
loadVotingPowers_AnyStatus(row, dbRead) ==
    IF dbRead /\ row.status # "none"
    THEN [found |-> TRUE, votingPowers |-> row.votingPowers]
    ELSE [found |-> FALSE, votingPowers |-> EmptyMap]

\* loadVotingPowers: the row with status completed, when the select succeeds
loadVotingPowers(row, dbRead) ==
    IF dbRead /\ row.status = "completed"
    THEN [found |-> TRUE, votingPowers |-> row.votingPowers]
    ELSE [found |-> FALSE, votingPowers |-> EmptyMap]

\* the loop over Object.entries(votes)
RECURSIVE ProcessVotes(_, _, _, _)
ProcessVotes(order, votesMap, votingPowers, acc) ==
    IF order = << >> THEN acc
    ELSE LET normalizedWallet == toLowerCase(Head(order))
             votedOption == votesMap[Head(order)]
             looked == Lookup(votingPowers, normalizedWallet)
             votingPower == IF looked = None THEN 1 ELSE looked
             base == IF votedOption \in DOMAIN acc.optionTallies
                     THEN acc.optionTallies[votedOption] ELSE 0
         IN  ProcessVotes(Tail(order), votesMap, votingPowers,
                 [optionTallies |-> hset(acc.optionTallies, votedOption,
                                         base + votingPower),
                  voterBreakdown |-> hset(acc.voterBreakdown, normalizedWallet,
                                          [votingPower |-> votingPower,
                                           votedOption |-> votedOption]),
                  totalVotesCast |-> acc.totalVotesCast + votingPower,
                  totalUniqueVoters |-> acc.totalUniqueVoters + 1])

\* the loop that looks for the highest tally, over the options in key order
RECURSIVE FindMax(_, _, _)
FindMax(order, optionTallies, acc) ==
    IF order = << >> THEN acc
    ELSE FindMax(Tail(order), optionTallies,
                 IF optionTallies[Head(order)] > acc.maxVotes
                 THEN [maxVotes |-> optionTallies[Head(order)],
                       winningOption |-> Head(order)]
                 ELSE acc)

\* a tally that keeps whatever the loop for the highest tally found
HandleTies_FirstMaxWins(optionTallies, found) ==
    IF found.maxVotes = 0 THEN None ELSE found.winningOption

\* the tie and no-vote handling that follows the loop
HandleTies(optionTallies, found) ==
    LET maxVoteOptions == {o \in DOMAIN optionTallies :
                              optionTallies[o] = found.maxVotes /\ optionTallies[o] > 0}
    IN  IF Cardinality(maxVoteOptions) > 1 THEN None
        ELSE IF found.maxVotes = 0 THEN None
        ELSE found.winningOption

calculateWeightedResults(votingPowers, votesMap, proposalOptions) ==
    LET init == [optionTallies |-> [o \in {proposalOptions[i] :
                                            i \in 1..Len(proposalOptions)} |-> 0],
                 voterBreakdown |-> EmptyMap,
                 totalVotesCast |-> 0,
                 totalUniqueVoters |-> 0]
        done == ProcessVotes(SortedSeq(DOMAIN votesMap), votesMap, votingPowers, init)
        found == FindMax(SortedSeq(DOMAIN done.optionTallies), done.optionTallies,
                         [maxVotes |-> 0, winningOption |-> None])
    IN  [optionTallies |-> done.optionTallies,
         voterBreakdown |-> done.voterBreakdown,
         totalVotingPower |-> SumMap(votingPowers),
         totalVotesCast |-> done.totalVotesCast,
         totalUniqueVoters |-> done.totalUniqueVoters,
         winningOption |-> HandleTies(done.optionTallies, found)]

NoTallyRow ==
    [status |-> "none", optionTallies |-> EmptyMap, voterBreakdown |-> EmptyMap,
     totalVotingPower |-> 0, totalVotesCast |-> 0, totalUniqueVoters |-> 0,
     winningOption |-> None]

saveResultsAudit(results) ==
    [status |-> "completed", optionTallies |-> results.optionTallies,
     voterBreakdown |-> results.voterBreakdown,
     totalVotingPower |-> results.totalVotingPower,
     totalVotesCast |-> results.totalVotesCast,
     totalUniqueVoters |-> results.totalUniqueVoters,
     winningOption |-> results.winningOption]

TallyErrorAudit == [NoTallyRow EXCEPT !.status = "error"]

\* calculateFinalResults(p) against resolution row resRow and tally row row:
\* dbRead - the select of the resolution row succeeds; redisOk - getAllVotes
\* succeeds; proposalOk - proposalDb.getById returns the proposal; dbOk - the
\* upsert of the tally row succeeds.  Records which steps ran.
TallyOutcome(p, resRow, row, dbRead, redisOk, proposalOk, dbOk) ==
    LET loaded == loadVotingPowers(resRow, dbRead)
        computed == loaded.found /\ redisOk /\ proposalOk
        wrote == IF computed THEN "completed" ELSE "error"
        results == calculateWeightedResults(loaded.votingPowers, getAllVotes(p),
                                            ProposalOptions(p))
    IN  [success |-> computed,
         resolutionFound |-> loaded.found,
         usedPowers |-> loaded.votingPowers,
         votesRead |-> loaded.found,
         computed |-> computed,
         wrote |-> wrote,
         stored |-> dbOk,
         row |-> IF ~dbOk THEN row
                 ELSE IF computed THEN saveResultsAudit(results)
                 ELSE TallyErrorAudit]

----------------------------------------------------------------------------
(* Graph vocabulary of the properties *)

\* the wallets met when following the edges of delegs from wallet w, w included
RECURSIVE Walked(_, _, _)
Walked(delegs, w, seen) ==
    IF w \in seen THEN seen
    ELSE IF Lookup(delegs, w) = None THEN seen \cup {w}
    ELSE Walked(delegs, delegs[w], seen \cup {w})

Reaches(delegs, from, to) == to \in Walked(delegs, from, {})

\* no wallet comes back to itself by following one or more edges
Acyclic(delegs) ==
    \A w \in DOMAIN delegs : ~Reaches(delegs, delegs[w], w)

----------------------------------------------------------------------------
(* RedisVotingOps: the writes, each taken as one step (no other operation  *)
(* between its store commands)                                             *)

\* the record of a store operation: what ran, and the wallet's status before it
StoreOp(name, p, w, target) ==
    [op |-> name, proposal |-> p, wallet |-> w, target |-> target,
     status |-> "ok", cycleCheck |-> NoCycle, before |-> getUserStatus(p, w),
     closes |-> FALSE]

\* castVote without its third store command
castVoteStore_KeepsDelegation(p, userWallet, optionNumber) ==
    LET walletKey == toLowerCase(userWallet)
    IN  /\ votes' = [votes EXCEPT ![p] = hset(@, walletKey, toString(optionNumber))]
        /\ participants' = [participants EXCEPT ![p] = sadd(@, walletKey)]
        /\ delegations' = delegations

castVoteStore(p, userWallet, optionNumber) ==
    LET walletKey == toLowerCase(userWallet)
    IN  /\ votes' = [votes EXCEPT ![p] = hset(@, walletKey, toString(optionNumber))]
        /\ participants' = [participants EXCEPT ![p] = sadd(@, walletKey)]
        /\ delegations' = [delegations EXCEPT ![p] = hdel(@, walletKey)]

\* castVote retracting the vote when the wallet already holds that very vote
castVote_RetractsRepeated(p, userWallet, optionNumber) ==
    /\ IF getUserVote(p, userWallet) = optionNumber
       THEN /\ votes' = [votes EXCEPT ![p] = hdel(@, toLowerCase(userWallet))]
            /\ UNCHANGED <<delegations, participants>>
       ELSE castVoteStore(p, userWallet, optionNumber)
    /\ lastOp' = StoreOp("castVote", p, toLowerCase(userWallet), optionNumber)
    /\ UNCHANGED <<cooldown, auditVars, clockVars, restVars>>

castVote(p, userWallet, optionNumber) ==
    /\ castVoteStore(p, userWallet, optionNumber)
    /\ lastOp' = StoreOp("castVote", p, toLowerCase(userWallet), optionNumber)
    /\ UNCHANGED <<cooldown, auditVars, clockVars, restVars>>

setDelegationStore(p, delegatorWallet, delegateWallet) ==
    LET delegatorKey == toLowerCase(delegatorWallet)
        delegateKey == toLowerCase(delegateWallet)
    IN  /\ delegations' = [delegations EXCEPT ![p] = hset(@, delegatorKey, delegateKey)]
        /\ participants' = [participants EXCEPT ![p] = sadd(@, delegatorKey)]
        /\ votes' = [votes EXCEPT ![p] = hdel(@, delegatorKey)]

setDelegation(p, delegatorWallet, delegateWallet) ==
    /\ setDelegationStore(p, delegatorWallet, delegateWallet)
    /\ lastOp' = StoreOp("setDelegation", p, toLowerCase(delegatorWallet),
                         toLowerCase(delegateWallet))
    /\ UNCHANGED <<cooldown, auditVars, clockVars, restVars>>

removeVote(p, userWallet) ==
    /\ votes' = [votes EXCEPT ![p] = hdel(@, toLowerCase(userWallet))]
    /\ lastOp' = StoreOp("removeVote", p, toLowerCase(userWallet), None)
    /\ UNCHANGED <<delegations, participants, cooldown, auditVars, clockVars, restVars>>

removeDelegation(p, userWallet) ==
    /\ delegations' = [delegations EXCEPT ![p] = hdel(@, toLowerCase(userWallet))]
    /\ lastOp' = StoreOp("removeDelegation", p, toLowerCase(userWallet), None)
    /\ UNCHANGED <<votes, participants, cooldown, auditVars, clockVars, restVars>>

setCooldown(a, p) == cooldown' = cooldown \cup {<<toLowerCase(a), p>>}

\* the cooldown key's 60 second expiry (setex)
CooldownExpires(w, p) ==
    /\ <<w, p>> \in cooldown
    /\ cooldown' = cooldown \ {<<w, p>>}
    /\ UNCHANGED <<votes, delegations, participants, auditVars, clockVars,
                   lastOp, restVars>>

----------------------------------------------------------------------------
(* POST /:id/delegate, taken as one step *)

\* validateProposalAccess: accessOk - the proposal and the user exist and
\* belong to one organization
validateProposalAccess(p, accessOk) == accessOk /\ ~(now >= deadline[p])

\* whether, in the store as the request finds it, the delegator is reached from
\* the target along the existing edges (kept with the request's record)
ClosesCycle(p, a, t) ==
    /\ t # None
    /\ Reaches(getAllDelegations(p), toLowerCase(t), toLowerCase(a))

\* of a walk along the edges of delegs: how many wallets it visits, and whether
\* it ends at a wallet without delegation (if not, it comes back to a wallet it
\* has visited)
WalkSummary(delegs, walk) ==
    [wallets |-> Cardinality(walk),
     endsAtSink |-> \E x \in walk : x \notin DOMAIN delegs]

\* the walk from target t in the store as the request finds it (kept with the
\* request's record)
WalkFrom(p, t) ==
    IF t = None THEN [wallets |-> 0, endsAtSink |-> FALSE]
    ELSE WalkSummary(getAllDelegations(p),
                     Walked(getAllDelegations(p), toLowerCase(t), {}))

\* the route going on to setDelegation whatever the cycle check returned
DelegateStatus_IgnoresCycle(p, a, t, accessOk) ==
    IF checkCooldown(a, p) THEN "rate_limited"
    ELSE IF ~validateProposalAccess(p, accessOk) THEN "denied"
    ELSE IF t = None THEN "target_not_found"
    ELSE "ok"

\* what the route answers for delegator a and target t (None: no such user)
DelegateStatus(p, a, t, accessOk) ==
    IF checkCooldown(a, p) THEN "rate_limited"
    ELSE IF ~validateProposalAccess(p, accessOk) THEN "denied"
    ELSE IF t = None THEN "target_not_found"
    ELSE IF detectCyclesDFS(p, a, t).hasCycle THEN "cycle"
    ELSE "ok"

\* the route starting the cooldown as soon as the cycle check has run
DelegateRequest_CooldownOnReject(p, a, t, accessOk) ==
    \E status \in {DelegateStatus(p, a, t, accessOk)} :
    \E checked \in {status \in {"cycle", "ok"}} :
        /\ lastOp' = [op |-> "delegate", proposal |-> p, wallet |-> toLowerCase(a),
                      target |-> toLowerCase(t),
                      status |-> status,
                      cycleCheck |-> IF checked THEN detectCyclesDFS(p, a, t)
                                     ELSE NoCycle,
                      before |-> getUserStatus(p, a),
                      closes |-> ClosesCycle(p, a, t),
                      walk |-> WalkFrom(p, t)]
        /\ IF status = "ok"
           THEN setDelegationStore(p, a, t) /\ setCooldown(a, p)
           ELSE IF checked
           THEN UNCHANGED <<votes, delegations, participants>> /\ setCooldown(a, p)
           ELSE UNCHANGED storeVars
        /\ UNCHANGED <<auditVars, clockVars, restVars>>

DelegateRequest(p, a, t, accessOk) ==
    \E status \in {DelegateStatus(p, a, t, accessOk)} :
    \E checked \in {status \in {"cycle", "ok"}} :
        /\ lastOp' = [op |-> "delegate", proposal |-> p, wallet |-> toLowerCase(a),
                      target |-> toLowerCase(t),
                      status |-> status,
                      cycleCheck |-> IF checked THEN detectCyclesDFS(p, a, t)
                                     ELSE NoCycle,
                      before |-> getUserStatus(p, a),
                      closes |-> ClosesCycle(p, a, t),
                      walk |-> WalkFrom(p, t)]
        /\ IF status = "ok"
           THEN setDelegationStore(p, a, t) /\ setCooldown(a, p)
           ELSE UNCHANGED storeVars
        /\ UNCHANGED <<auditVars, clockVars, restVars>>

----------------------------------------------------------------------------
(* Resolution and tally as operations *)

resolveBulkDelegations(p, redisOk, dbOk) ==
    \E out \in {ResolveOutcome(p, resolutionAudit[p], redisOk, dbOk)} :
        /\ resolutionAudit' = [resolutionAudit EXCEPT ![p] = out.row]
        /\ lastOp' = [op |-> "resolveBulkDelegations", proposal |-> p,
                      success |-> out.success, votingPowers |-> out.votingPowers]
        /\ UNCHANGED <<storeVars, tallyAudit, clockVars, restVars>>

\* a tally that, when it fails, marks the resolution row failed as well
calculateFinalResults_DiscardsResolution(p, dbRead, redisOk, proposalOk, dbOk) ==
    \E out \in {TallyOutcome(p, resolutionAudit[p], tallyAudit[p],
                             dbRead, redisOk, proposalOk, dbOk)} :
        /\ tallyAudit' = [tallyAudit EXCEPT ![p] = out.row]
        /\ resolutionAudit' = [resolutionAudit EXCEPT ![p] =
                                   IF out.success THEN @ ELSE ResolutionErrorAudit]
        /\ lastOp' = [op |-> "calculateFinalResults", proposal |-> p,
                      tallyCalled |-> TRUE,
                      resolutionStatus |-> resolutionAudit[p].status,
                      tally |-> [x \in DOMAIN out \ {"row"} |-> out[x]]]
        /\ UNCHANGED <<storeVars, clockVars, restVars>>

calculateFinalResults(p, dbRead, redisOk, proposalOk, dbOk) ==
    \E out \in {TallyOutcome(p, resolutionAudit[p], tallyAudit[p],
                             dbRead, redisOk, proposalOk, dbOk)} :
        /\ tallyAudit' = [tallyAudit EXCEPT ![p] = out.row]
        /\ lastOp' = [op |-> "calculateFinalResults", proposal |-> p,
                      tallyCalled |-> TRUE,
                      resolutionStatus |-> resolutionAudit[p].status,
                      tally |-> [x \in DOMAIN out \ {"row"} |-> out[x]]]
        /\ UNCHANGED <<storeVars, resolutionAudit, clockVars, restVars>>

NoTallyRun ==
    [success |-> FALSE, resolutionFound |-> FALSE, usedPowers |-> EmptyMap,
     votesRead |-> FALSE, computed |-> FALSE, wrote |-> "none", stored |-> FALSE]

\* processProposal: resolution, then the tally when resolution returned success
\* (the scheduler's own bookkeeping is left to the caller)
processProposal(p, redisOk1, dbOk1, dbRead, redisOk2, proposalOk, dbOk2) ==
    \E res \in {ResolveOutcome(p, resolutionAudit[p], redisOk1, dbOk1)} :
    \E out \in {TallyOutcome(p, res.row, tallyAudit[p],
                             dbRead, redisOk2, proposalOk, dbOk2)} :
        /\ resolutionAudit' = [resolutionAudit EXCEPT ![p] = res.row]
        /\ tallyAudit' = [tallyAudit EXCEPT ![p] =
                             IF res.success THEN out.row ELSE @]
        /\ lastOp' = [op |-> "processProposal", proposal |-> p,
                      success |-> res.success, votingPowers |-> res.votingPowers,
                      tallyCalled |-> res.success,
                      resolutionStatus |-> res.row.status,
                      tally |-> IF res.success
                                THEN [x \in DOMAIN out \ {"row"} |-> out[x]]
                                ELSE NoTallyRun]
        /\ UNCHANGED <<storeVars, clockVars, probe, inflight, backupVars>>

----------------------------------------------------------------------------
(* Spec: the store operations on one proposal while its voting is open,     *)
(* then resolution and tally once its deadline has passed, with the store   *)
(* and the database answering every call                                    *)

NoOp == [op |-> "none", proposal |-> None, wallet |-> None, target |-> None,
         status |-> "ok", cycleCheck |-> NoCycle,
         before |-> [has_voted |-> FALSE, has_delegated |-> FALSE],
         closes |-> FALSE]

NoProbe == [fn |-> "none"]

EmptyStore ==
    /\ votes = [p \in Proposals |-> EmptyMap]
    /\ delegations = [p \in Proposals |-> EmptyMap]
    /\ participants = [p \in Proposals |-> {}]
    /\ cooldown = {}

NoAudit ==
    /\ resolutionAudit = [p \in Proposals |-> NoResolutionRow]
    /\ tallyAudit = [p \in Proposals |-> NoTallyRow]

\* what redis.get returns for a key that does not exist, for the string keys
NoKey == "(nil)"

\* no status or deadline key is set, and the snapshot table is empty
NoBackup ==
    /\ meta = [p \in Proposals |-> [status |-> NoKey, deadline |-> NoKey]]
    /\ snapshots = [rows |-> << >>, issued |-> 0]

\* no request is being served
NoRequest == [kind |-> "none", arg |-> None, pc |-> "idle"]

NoRequests == inflight = [w \in Wallets |-> NoRequest]

\* the scheduler module as loaded: no timer armed, no cycle run yet
SchedulerAtStart ==
    sched = [phase |-> "idle",
             nextCycle |-> 0,
             queue |-> << >>,
             queried |-> FALSE,
             due |-> {},
             ran |-> {},
             started |-> [p \in Proposals |-> 0],
             timers |-> [p \in Proposals |-> 0],
             activeTimeouts |-> {},
             invocations |-> [p \in Proposals |-> 0],
             failures |-> [p \in Proposals |-> 0],
             restarts |-> 0]

Init ==
    /\ EmptyStore
    /\ NoAudit
    /\ now = 0
    /\ deadline = [p \in Proposals |-> 1]
    /\ lastOp = NoOp
    /\ probe = NoProbe
    /\ NoRequests
    /\ SchedulerAtStart
    /\ NoBackup

VotingOpen(p) == now < deadline[p]

\* an hour passes and the clock reaches the proposals' deadline; the 60 second
\* cooldown keys have expired by then
DeadlinePasses ==
    /\ \E p \in StoreProposals : VotingOpen(p)
    /\ now' = now + 1
    /\ cooldown' = {}
    /\ lastOp' = [NoOp EXCEPT !.op = "deadline"]
    /\ UNCHANGED <<votes, delegations, participants, auditVars, deadline, restVars>>

StoreStep ==
    \E p \in StoreProposals :
        /\ VotingOpen(p)
        /\ \/ \E a \in Spellings(Wallets), o \in Options : castVote(p, a, o)
           \/ \E a, b \in Spellings(Wallets) : setDelegation(p, a, b)
           \/ \E a \in Spellings(Wallets) : removeVote(p, a)
           \/ \E a \in Spellings(Wallets) : removeDelegation(p, a)

ProcessStep ==
    \E p \in StoreProposals :
        /\ ~VotingOpen(p)
        /\ \/ resolveBulkDelegations(p, TRUE, TRUE)
           \/ calculateFinalResults(p, TRUE, TRUE, TRUE, TRUE)
           \/ processProposal(p, TRUE, TRUE, TRUE, TRUE, TRUE, TRUE) /\ UNCHANGED sched

Next == StoreStep \/ DeadlinePasses \/ ProcessStep

vars == <<votes, delegations, participants, cooldown, resolutionAudit, tallyAudit,
          now, deadline, lastOp, probe, inflight, sched, meta, snapshots>>

Spec == Init /\ [][Next]_vars

----------------------------------------------------------------------------
(* SpecRoute: delegate requests on one open proposal, over every content    *)
(* the votes and delegations hashes can be given by castVote and            *)
(* setDelegation                                                            *)

RouteStoreStep ==
    \E p \in StoreProposals :
        \/ \E a \in Wallets, o \in Options : castVote(p, a, o)
        \/ \E a, b \in Wallets : setDelegation(p, a, b)

RequestStep ==
    \E p \in StoreProposals, a \in Spellings(Wallets),
       t \in Spellings(Wallets) \cup {None}, accessOk \in BOOLEAN :
        DelegateRequest(p, a, t, accessOk)

ExpiryStep == \E w \in Wallets, p \in StoreProposals : CooldownExpires(w, p)

NextRoute == RouteStoreStep \/ RequestStep \/ ExpiryStep

SpecRoute == Init /\ [][NextRoute]_vars

----------------------------------------------------------------------------
(* Properties of the store operations *)

\* C1: after resolveBulkDelegations the values of the voting-power map add up
\* to the number of wallets in the proposal's participant set
C1_PowerSumIsParticipantCount ==
    \A p \in StoreProposals :
        (/\ lastOp.op \in {"resolveBulkDelegations", "processProposal"}
         /\ lastOp.proposal = p
         /\ lastOp.success)
        => SumMap(lastOp.votingPowers) = Cardinality(participants[p])

\* C5: right after castVote the wallet has no delegation, and right after
\* setDelegation the delegator has no vote
C5_WriteClearsOpposite ==
    /\ lastOp.op = "castVote"
         => /\ getUserDelegation(lastOp.proposal, lastOp.wallet) = None
            /\ getUserVote(lastOp.proposal, lastOp.wallet) = lastOp.target
    /\ lastOp.op = "setDelegation"
         => /\ getUserVote(lastOp.proposal, lastOp.wallet) = None
            /\ getUserDelegation(lastOp.proposal, lastOp.wallet) = lastOp.target

C5_Witness ==
    /\ lastOp.op = "castVote"
    /\ lastOp.before.has_delegated
    /\ getUserVote(lastOp.proposal, lastOp.wallet) # None

\* C19: after every store operation the participant set of a proposal is the
\* set of wallets that hold a vote or a delegation in it
C19_ParticipantsAreHolders ==
    \A p \in StoreProposals :
        participants[p] = LowerKeys(votes[p]) \cup LowerKeys(delegations[p])

----------------------------------------------------------------------------
(* Properties of the delegate route *)

\* C6: a delegate request d -> t made while d is reachable from t along the
\* existing edges is not accepted, leaves the store as it was, and its cycle
\* check, when the request gets that far, reports a cycle
C6_ClosingEdgeRejected ==
    [][(lastOp'.op = "delegate" /\ lastOp'.closes)
        => /\ lastOp'.status \in {"rate_limited", "denied", "cycle"}
           /\ lastOp'.status = "cycle" => lastOp'.cycleCheck.hasCycle
           /\ UNCHANGED <<votes, delegations, participants>>]_vars

C6_Witness ==
    /\ lastOp.op = "delegate"
    /\ lastOp.status = "cycle"
    /\ lastOp.cycleCheck.reason = "circular delegation"
    /\ Len(lastOp.cycleCheck.cyclePath) >= 3
    /\ Reaches(getAllDelegations(lastOp.proposal), lastOp.target, lastOp.wallet)

C20_CycleRejectionChangesNothing ==
    [][(lastOp' # lastOp /\ lastOp'.op = "delegate" /\ lastOp'.status = "cycle")
        => /\ lastOp'.cycleCheck.hasCycle
           /\ UNCHANGED <<votes, delegations, participants, cooldown>>]_vars

\* a request of a wallet that holds a vote, to another wallet, rejected for
\* closing a cycle: the wallet still holds its vote and is not cooling down
C20_Witness ==
    /\ lastOp.op = "delegate"
    /\ lastOp.status = "cycle"
    /\ lastOp.wallet # lastOp.target
    /\ lastOp.before.has_voted
    /\ getUserVote(lastOp.proposal, lastOp.wallet) # None
    /\ ~checkCooldown(lastOp.wallet, lastOp.proposal)

----------------------------------------------------------------------------
(* SpecTally: calculateWeightedResults applied to every power map, votes    *)
(* map and option list within the bounds                                    *)

\* power maps: some wallets absent, powers 0..MaxPower
PowerMaps ==
    UNION {[W -> 0..MaxPower] : W \in SUBSET Wallets}

\* votes maps as getAllVotes returns them; option NumOptions + 1 is one the
\* proposal may not declare
VotesMaps ==
    UNION {[W -> 1..(NumOptions + 1)] : W \in SUBSET Wallets}

\* option lists: option_number 1..n for n up to NumOptions, or no options
OptionLists == {[i \in 1..n |-> i] : n \in 0..NumOptions}

InitTally ==
    /\ EmptyStore
    /\ NoAudit
    /\ now = 0
    /\ deadline = [p \in Proposals |-> 1]
    /\ lastOp = NoOp
    /\ NoRequests
    /\ SchedulerAtStart
    /\ NoBackup
    /\ probe \in [fn : {"input"}, votingPowers : PowerMaps, votes : VotesMaps,
                  proposalOptions : OptionLists]

ApplyTally ==
    /\ probe.fn = "input"
    /\ probe' = [fn |-> "calculateWeightedResults",
                 votingPowers |-> probe.votingPowers,
                 votes |-> probe.votes,
                 proposalOptions |-> probe.proposalOptions,
                 result |-> calculateWeightedResults(probe.votingPowers, probe.votes,
                                                     probe.proposalOptions)]
    /\ UNCHANGED <<storeVars, auditVars, clockVars, lastOp, inflight, sched, backupVars>>

NextTally == ApplyTally

SpecTally == InitTally /\ [][NextTally]_vars

\* the options whose tally is positive and strictly above every other tally
StrictWinners(optionTallies) ==
    {o \in DOMAIN optionTallies :
        /\ optionTallies[o] > 0
        /\ \A o2 \in (DOMAIN optionTallies) \ {o} :
              optionTallies[o] > optionTallies[o2]}

\* C9: calculateWeightedResults names option o the winner exactly when o's
\* tally is positive and strictly above every other option's tally, and names
\* no winner (null) when the positive maximum is shared or the maximum is zero
C9_WinnerIsStrictMaximum ==
    probe.fn = "calculateWeightedResults"
    => LET t == probe.result.optionTallies
           w == probe.result.winningOption
       IN  /\ \A o \in DOMAIN t : (w = o) <=> (o \in StrictWinners(t))
           /\ (StrictWinners(t) = {}) <=> (w = None)

\* a winner declared over another option that also got votes
C9_Witness ==
    /\ probe.fn = "calculateWeightedResults"
    /\ probe.result.winningOption # None
    /\ \E o \in DOMAIN probe.result.optionTallies :
          /\ o # probe.result.winningOption
          /\ probe.result.optionTallies[o] > 0

----------------------------------------------------------------------------
(* SpecChain: one long chain of delegations built by accepted delegate      *)
(* requests (wallet 1 first, then each new sink in turn), the sink voting,  *)
(* and processProposal after the deadline                                   *)

MaxChain == 102

ChainWallets == 1..MaxChain

\* the wallet at the end of the chain built so far
ChainSink(p) == Cardinality(DOMAIN delegations[p]) + 1

\* the sink delegates to the next wallet, or asks to delegate back to wallet 1
ChainRequestStep ==
    \E p \in StoreProposals :
        /\ VotingOpen(p)
        /\ \/ /\ ChainSink(p) + 1 \in ChainWallets
              /\ DelegateRequest(p, ChainSink(p), ChainSink(p) + 1, TRUE)
           \/ DelegateRequest(p, ChainSink(p), 1, TRUE)

ChainVoteStep ==
    \E p \in StoreProposals, o \in Options :
        /\ VotingOpen(p)
        /\ castVote(p, ChainSink(p), o)

ChainProcessStep ==
    \E p \in StoreProposals :
        /\ ~VotingOpen(p)
        /\ lastOp.op # "processProposal"
        /\ processProposal(p, TRUE, TRUE, TRUE, TRUE, TRUE, TRUE)
        /\ UNCHANGED sched

NextChain == ChainRequestStep \/ ChainVoteStep \/ DeadlinePasses \/ ChainProcessStep

SpecChain == Init /\ [][NextChain]_vars

\* C8: in the resolution of an acyclic delegation map every delegator's final
\* delegate has no outgoing delegation and the recorded length of its path is
\* at most 100
C8_ChainEndsAtSink ==
    \A p \in StoreProposals :
        LET graph == buildDelegationGraph(getAllDelegations(p))
            row == resolutionAudit[p]
        IN  (/\ lastOp.op = "processProposal"
             /\ lastOp.proposal = p
             /\ row.status = "completed"
             /\ Acyclic(graph))
            => \A d \in DOMAIN graph :
                  /\ row.delegationResolution[d] = resolveChainForUser(d, graph).finalDelegate
                  /\ row.delegationResolution[d] \notin DOMAIN graph
                  /\ row.auditTrail[d].length <= 100

\* the wallet without outgoing delegation that the edges lead to from w
SinkOf(delegs, w) ==
    CHOOSE x \in Walked(delegs, w, {}) : x \notin DOMAIN delegs

\* C10: after resolution and tally of an acyclic store in which no wallet both
\* votes and delegates, each option's tally is the number of voters and
\* delegators whose chain ends at a wallet that voted for it, and total voting
\* power exceeds the power cast when some delegator's sink did not vote
C10_TallyCountsChainEnds ==
    \A p \in StoreProposals :
        LET delegs == getAllDelegations(p)
            voted == getAllVotes(p)
            row == tallyAudit[p]
            members == (DOMAIN voted) \cup (DOMAIN delegs)
        IN  (/\ lastOp.op = "processProposal"
             /\ lastOp.proposal = p
             /\ row.status = "completed"
             /\ Acyclic(delegs)
             /\ (DOMAIN voted) \cap (DOMAIN delegs) = {})
            => /\ \A o \in DOMAIN row.optionTallies :
                     row.optionTallies[o] =
                        Cardinality({w \in members :
                                        /\ SinkOf(delegs, w) \in DOMAIN voted
                                        /\ voted[SinkOf(delegs, w)] = o})
               /\ (\E d \in DOMAIN delegs : SinkOf(delegs, d) \notin DOMAIN voted)
                     => row.totalVotingPower > row.totalVotesCast

----------------------------------------------------------------------------
(* SpecFaults: resolution and tally after the deadline with the store and   *)
(* the database failing any of their calls, on every store two wallets can  *)
(* leave behind                                                             *)

NumFaultWallets == 2

FaultWallets == 1..NumFaultWallets

FaultStoreStep ==
    \E p \in StoreProposals :
        /\ VotingOpen(p)
        /\ \/ \E a \in FaultWallets, o \in Options : castVote(p, a, o)
           \/ \E a, b \in FaultWallets : setDelegation(p, a, b)

FaultProcessStep ==
    \E p \in StoreProposals :
        /\ ~VotingOpen(p)
        /\ \/ \E redisOk, dbOk \in BOOLEAN : resolveBulkDelegations(p, redisOk, dbOk)
           \/ \E dbRead, redisOk, proposalOk, dbOk \in BOOLEAN :
                 calculateFinalResults(p, dbRead, redisOk, proposalOk, dbOk)
           \/ \E redisOk1, dbOk1, dbRead, redisOk2, proposalOk, dbOk2 \in BOOLEAN :
                 /\ processProposal(p, redisOk1, dbOk1, dbRead, redisOk2,
                                    proposalOk, dbOk2)
                 /\ UNCHANGED sched

NextFaults == FaultStoreStep \/ DeadlinePasses \/ FaultProcessStep

SpecFaults == Init /\ [][NextFaults]_vars

\* C4: a tally is computed only while the proposal's resolution row has status
\* completed; processProposal goes on to calculateFinalResults only when
\* resolveBulkDelegations returned success; and calculateFinalResults without
\* a completed resolution row reads no votes, computes nothing and writes a
\* tally row with status error (the row the table then holds, unless the
\* database refuses the write and the table keeps what it had)
C4_TallyNeedsCompletedResolution ==
    [][(lastOp'.op \in {"processProposal", "calculateFinalResults"})
        => LET p == lastOp'.proposal
               tally == lastOp'.tally
           IN  /\ tally.computed => resolutionAudit'[p].status = "completed"
               /\ (lastOp'.op = "processProposal" /\ ~lastOp'.success)
                     => /\ tally = NoTallyRun
                        /\ tallyAudit' = tallyAudit
               /\ (lastOp'.op = "processProposal" /\ lastOp'.success)
                     => tally.wrote # "none"
               /\ tally.resolutionFound => resolutionAudit'[p].status = "completed"
               /\ (tally.wrote # "none" /\ ~tally.resolutionFound)
                     => /\ ~tally.votesRead
                        /\ ~tally.computed
                        /\ tally.wrote = "error"
                        /\ tallyAudit'[p] = IF tally.stored THEN TallyErrorAudit
                                            ELSE tallyAudit[p]]_vars

\* resolution returned success but its row was not stored, and the tally that
\* followed aborted and left an error row
C4_Witness ==
    /\ lastOp.op = "processProposal"
    /\ lastOp.success
    /\ lastOp.tally.wrote = "error"
    /\ ~lastOp.tally.resolutionFound
    /\ resolutionAudit[lastOp.proposal].status # "completed"
    /\ tallyAudit[lastOp.proposal].status = "error"
    /\ DOMAIN votes[lastOp.proposal] # {}

\* C17: a tally that fails leaves the resolution record as it is (called on
\* its own: every resolution row unchanged; called by processProposal: the row
\* its resolution step left, status and voting powers), and writes nothing
\* but the proposal's tally row, with status error
C17_FailedTallyKeepsResolution ==
    [][(/\ lastOp'.op \in {"calculateFinalResults", "processProposal"}
        /\ lastOp'.tallyCalled
        /\ ~lastOp'.tally.success)
        => LET p == lastOp'.proposal
           IN  /\ lastOp'.op = "calculateFinalResults"
                    => resolutionAudit' = resolutionAudit
               /\ lastOp'.op = "processProposal"
                    => /\ resolutionAudit'[p].status = lastOp'.resolutionStatus
                       /\ resolutionAudit'[p] # resolutionAudit[p]
                             => /\ resolutionAudit'[p].status = "completed"
                                /\ resolutionAudit'[p].votingPowers = lastOp'.votingPowers
                       /\ \A q \in Proposals \ {p} :
                             resolutionAudit'[q] = resolutionAudit[q]
               /\ lastOp'.tally.wrote = "error"
               /\ tallyAudit'[p] = IF lastOp'.tally.stored THEN TallyErrorAudit
                                   ELSE tallyAudit[p]
               /\ \A q \in Proposals \ {p} : tallyAudit'[q] = tallyAudit[q]
               /\ UNCHANGED <<votes, delegations, participants>>]_vars

\* a tally that found the completed resolution of a proposal with votes and
\* then failed: the resolution row is still completed, the tally row is error
C17_Witness ==
    /\ lastOp.op = "calculateFinalResults"
    /\ lastOp.tally.resolutionFound
    /\ ~lastOp.tally.success
    /\ resolutionAudit[lastOp.proposal].status = "completed"
    /\ DOMAIN resolutionAudit[lastOp.proposal].votingPowers # {}
    /\ tallyAudit[lastOp.proposal].status = "error"

\* C18: a run of processProposal for a proposal whose resolution row and
\* tally row are both completed leaves both rows completed, with the voting
\* powers, the option tallies and the winning option they held
C18_RerunKeepsCompletedRecords ==
    [][\A p \in StoreProposals :
          (/\ lastOp'.op = "processProposal"
           /\ lastOp'.proposal = p
           /\ resolutionAudit[p].status = "completed"
           /\ tallyAudit[p].status = "completed")
          => /\ resolutionAudit'[p].status = "completed"
             /\ tallyAudit'[p].status = "completed"
             /\ resolutionAudit'[p].votingPowers = resolutionAudit[p].votingPowers
             /\ tallyAudit'[p].optionTallies = tallyAudit[p].optionTallies
             /\ tallyAudit'[p].winningOption = tallyAudit[p].winningOption]_vars

----------------------------------------------------------------------------
(* SpecConc: delegate and vote requests served concurrently.  A request is  *)
(* a sequence of awaited calls, and the calls of the requests of different  *)
(* wallets interleave; each wallet has one request in service at a time.    *)

NumConcWallets == 2

ConcWallets == 1..NumConcWallets

Serve(w, request) == inflight' = [inflight EXCEPT ![w] = request]

\* POST /:id/delegate up to the cycle check: rate limit, access, target lookup
BeginDelegate(p, w, t) ==
    /\ inflight[w] = NoRequest
    /\ ~checkCooldown(w, p)
    /\ validateProposalAccess(p, TRUE)
    /\ Serve(w, [kind |-> "delegate", arg |-> t, pc |-> "check"])
    /\ UNCHANGED <<storeVars, auditVars, clockVars, lastOp, probe, sched, backupVars>>

\* the cycle check: one read of the delegations hash, then 400 or go on
CheckCycle(p, w) ==
    /\ inflight[w].pc = "check"
    /\ IF detectCyclesDFS(p, w, inflight[w].arg).hasCycle
       THEN Serve(w, NoRequest)
       ELSE Serve(w, [inflight[w] EXCEPT !.pc = "hset"])
    /\ UNCHANGED <<storeVars, auditVars, clockVars, lastOp, probe, sched, backupVars>>

\* POST /:id/vote up to castVote: rate limit, access, option check
BeginVote(p, w, o) ==
    /\ inflight[w] = NoRequest
    /\ ~checkCooldown(w, p)
    /\ validateProposalAccess(p, TRUE)
    /\ o \in {ProposalOptions(p)[i] : i \in 1..Len(ProposalOptions(p))}
    /\ Serve(w, [kind |-> "vote", arg |-> o, pc |-> "hset"])
    /\ UNCHANGED <<storeVars, auditVars, clockVars, lastOp, probe, sched, backupVars>>

\* first store command of setDelegation / castVote
WriteHset(p, w) ==
    /\ inflight[w].pc = "hset"
    /\ IF inflight[w].kind = "delegate"
       THEN /\ delegations' = [delegations EXCEPT
                                  ![p] = hset(@, toLowerCase(w),
                                              toLowerCase(inflight[w].arg))]
            /\ votes' = votes
       ELSE /\ votes' = [votes EXCEPT
                            ![p] = hset(@, toLowerCase(w), toString(inflight[w].arg))]
            /\ delegations' = delegations
    /\ Serve(w, [inflight[w] EXCEPT !.pc = "sadd"])
    /\ UNCHANGED <<participants, cooldown, auditVars, clockVars, lastOp, probe, sched, backupVars>>

\* second store command
WriteSadd(p, w) ==
    /\ inflight[w].pc = "sadd"
    /\ participants' = [participants EXCEPT ![p] = sadd(@, toLowerCase(w))]
    /\ Serve(w, [inflight[w] EXCEPT !.pc = "hdel"])
    /\ UNCHANGED <<votes, delegations, cooldown, auditVars, clockVars, lastOp,
                   probe, sched, backupVars>>

\* third store command
WriteHdel(p, w) ==
    /\ inflight[w].pc = "hdel"
    /\ IF inflight[w].kind = "delegate"
       THEN /\ votes' = [votes EXCEPT ![p] = hdel(@, toLowerCase(w))]
            /\ delegations' = delegations
       ELSE /\ delegations' = [delegations EXCEPT ![p] = hdel(@, toLowerCase(w))]
            /\ votes' = votes
    /\ Serve(w, [inflight[w] EXCEPT !.pc = "cooldown"])
    /\ UNCHANGED <<participants, cooldown, auditVars, clockVars, lastOp, probe, sched, backupVars>>

\* setCooldown, after which the request is answered
WriteCooldown(p, w) ==
    /\ inflight[w].pc = "cooldown"
    /\ setCooldown(w, p)
    /\ Serve(w, NoRequest)
    /\ UNCHANGED <<votes, delegations, participants, auditVars, clockVars, lastOp,
                   probe, sched, backupVars>>

ConcBeginStep ==
    \E p \in StoreProposals, w \in ConcWallets :
        \/ \E t \in ConcWallets : BeginDelegate(p, w, t)
        \/ \E o \in Options : BeginVote(p, w, o)

ConcCheckStep == \E p \in StoreProposals, w \in ConcWallets : CheckCycle(p, w)

ConcWriteStep ==
    \E p \in StoreProposals, w \in ConcWallets :
        \/ WriteHset(p, w)
        \/ WriteSadd(p, w)
        \/ WriteHdel(p, w)
        \/ WriteCooldown(p, w)

ConcExpiryStep ==
    \E p \in StoreProposals, w \in ConcWallets :
        CooldownExpires(w, p)

NextConc == ConcBeginStep \/ ConcCheckStep \/ ConcWriteStep \/ ConcExpiryStep

SpecConc == Init /\ [][NextConc]_vars

\* C2: in every state reached by interleaved delegate and vote requests the
\* delegations held in the store contain no cycle
C2_StoreAcyclic ==
    \A p \in StoreProposals : Acyclic(getAllDelegations(p))

----------------------------------------------------------------------------
(* SpecSched: the proposal scheduler over hours of wall-clock time.  A      *)
(* cycle runs at start-up and every CHECK_INTERVAL_HOURS after; its awaited *)
(* calls are separate steps; timers fire in the hour they are due.          *)

SCHEDULE_WINDOW_HOURS == 36

CHECK_INTERVAL_HOURS == 24

MaxDeadline == 26

MaxHour == 28

\* a proposal counted as done on its completed resolution row alone
FullyCompleted_ResolutionOnly(p) == resolutionAudit[p].status = "completed"

\* a proposal also counted as done once its resolution has failed
FullyCompleted_OrResolutionFailed(p) ==
    \/ resolutionAudit[p].status = "error"
    \/ /\ resolutionAudit[p].status = "completed"
       /\ tallyAudit[p].status = "completed"

\* both audit tables hold a completed row for the proposal
FullyCompleted(p) ==
    /\ resolutionAudit[p].status = "completed"
    /\ tallyAudit[p].status = "completed"

\* one call of processProposal made by the scheduler; ok - the store answers
\* the resolver's reads; tallyOk - proposalDb.getById finds the proposal
ScheduledRun(p, ok, tallyOk) ==
    processProposal(p, ok, TRUE, TRUE, TRUE, tallyOk, TRUE)

\* a sweep that takes only the expired proposals no run has left a row for
ExpiredProposals_UntouchedOnly(queriesOk) ==
    IF queriesOk
    THEN {p \in DOMAIN deadline :
             /\ deadline[p] < now
             /\ resolutionAudit[p].status = "none"
             /\ tallyAudit[p].status = "none"}
    ELSE {}

\* a sweep whose query lacks the filter on voting_deadline
ExpiredProposals_AnyDeadline(queriesOk) ==
    IF queriesOk
    THEN {p \in DOMAIN deadline : ~FullyCompleted(p)}
    ELSE {}

\* checkExpiredProposals: the expired proposals that are not fully completed
\* (the rows of table proposals are the proposals that have a deadline);
\* none when one of its three queries fails (queriesOk)
ExpiredProposals(queriesOk) ==
    IF queriesOk
    THEN {p \in DOMAIN deadline : deadline[p] < now /\ ~FullyCompleted(p)}
    ELSE {}

\* runSchedulerCycle entering checkExpiredProposals, up to its loop
CycleBegin ==
    /\ sched.phase = "idle"
    /\ now = sched.nextCycle
    /\ \E queriesOk \in BOOLEAN :
          sched' = [sched EXCEPT
                       !.phase = "sweep",
                       !.nextCycle = @ + CHECK_INTERVAL_HOURS,
                       !.queue = SortedSeq(ExpiredProposals(queriesOk)),
                       !.queried = queriesOk,
                       !.due = ExpiredProposals(queriesOk),
                       !.ran = {}]
    /\ UNCHANGED <<storeVars, auditVars, clockVars, lastOp, probe, inflight, backupVars>>

\* a loop that gives up on the rest of the list when a proposal fails
SweepStep_StopsOnFailure ==
    /\ sched.phase = "sweep"
    /\ sched.queue # << >>
    /\ \E ok, tallyOk \in BOOLEAN : ScheduledRun(Head(sched.queue), ok, tallyOk)
    /\ sched' = [sched EXCEPT
                    !.queue = IF lastOp'.tally.success THEN Tail(@) ELSE << >>,
                    !.ran = @ \cup {Head(sched.queue)},
                    !.invocations[Head(sched.queue)] = @ + 1,
                    !.failures[Head(sched.queue)] =
                        IF lastOp'.tally.success THEN @ ELSE @ + 1]

\* checkExpiredProposals: the loop awaiting processProposal for each in turn
SweepStep ==
    /\ sched.phase = "sweep"
    /\ sched.queue # << >>
    /\ \E ok, tallyOk \in BOOLEAN : ScheduledRun(Head(sched.queue), ok, tallyOk)
    /\ sched' = [sched EXCEPT
                    !.queue = Tail(@),
                    !.ran = @ \cup {Head(sched.queue)},
                    !.invocations[Head(sched.queue)] = @ + 1,
                    !.failures[Head(sched.queue)] =
                        IF lastOp'.tally.success THEN @ ELSE @ + 1]

\* scheduleNearTermProposals with scheduleProposalFinalization for each
\* proposal in the window: a timer is armed, or processProposal is started
\* at once when the delay is not positive
ScheduleStep ==
    /\ sched.phase = "sweep"
    /\ sched.queue = << >>
    /\ LET nearTerm == {p \in DOMAIN deadline :
                           /\ deadline[p] >= now
                           /\ deadline[p] <= now + SCHEDULE_WINDOW_HOURS
                           /\ ~FullyCompleted(p)}
           expired == {p \in nearTerm : deadline[p] - now <= 0}
       IN  sched' = [sched EXCEPT
                        !.phase = "idle",
                        !.started = [p \in Proposals |->
                                        @[p] + (IF p \in expired THEN 1 ELSE 0)],
                        !.timers = [p \in Proposals |->
                                       @[p] + (IF p \in nearTerm \ expired
                                               THEN 1 ELSE 0)],
                        !.activeTimeouts = @ \cup (nearTerm \ expired)]
    /\ UNCHANGED <<storeVars, auditVars, clockVars, lastOp, probe, inflight, backupVars>>

\* a processProposal started without a timer runs
StartedRunStep ==
    \E p \in Proposals, ok, tallyOk \in BOOLEAN :
        /\ sched.started[p] > 0
        /\ ScheduledRun(p, ok, tallyOk)
        /\ sched' = [sched EXCEPT !.started[p] = @ - 1,
                                  !.invocations[p] = @ + 1,
                                  !.failures[p] =
                                      IF lastOp'.tally.success THEN @ ELSE @ + 1]

\* the setTimeout callback: processProposal, then activeTimeouts.delete
TimerFires ==
    \E p \in Proposals, ok, tallyOk \in BOOLEAN :
        /\ sched.timers[p] > 0
        /\ now >= deadline[p]
        /\ ScheduledRun(p, ok, tallyOk)
        /\ sched' = [sched EXCEPT !.timers[p] = @ - 1,
                                  !.activeTimeouts = @ \ {p},
                                  !.invocations[p] = @ + 1,
                                  !.failures[p] =
                                      IF lastOp'.tally.success THEN @ ELSE @ + 1]

\* an hour passes, once everything due in this hour has run
Tick ==
    /\ now < MaxHour
    /\ sched.phase = "idle"
    /\ now # sched.nextCycle
    /\ \A p \in Proposals :
          /\ sched.started[p] = 0
          /\ ~(sched.timers[p] > 0 /\ now >= deadline[p])
    /\ now' = now + 1
    /\ UNCHANGED <<storeVars, auditVars, deadline, lastOp, restVars>>

InitSched ==
    /\ EmptyStore
    /\ NoAudit
    /\ now = 0
    /\ deadline \in [Proposals -> 1..MaxDeadline]
    /\ lastOp = NoOp
    /\ probe = NoProbe
    /\ NoRequests
    /\ SchedulerAtStart
    /\ NoBackup

NextSched ==
    CycleBegin \/ SweepStep \/ ScheduleStep \/ StartedRunStep \/ TimerFires \/ Tick

SpecSched == InitSched /\ [][NextSched]_vars

\* C3: once a proposal's deadline hour is over, processProposal has been
\* invoked for it exactly once, however many scheduler cycles have run (runs
\* repeated after a run that failed are not held against the scheduler here)
C3_ProcessedExactlyOnce ==
    \A p \in Proposals :
        (now > deadline[p] /\ sched.failures[p] = 0) => sched.invocations[p] = 1

\* the step is a call of processProposal for proposal p by the scheduler
Invoked(p) == sched'.invocations[p] = sched.invocations[p] + 1

\* the proposals waiting in the sweep's loop
Queued(s) == {s.queue[i] : i \in 1..Len(s.queue)}

\* C14 as stated: once the resolution of a proposal has failed (and no timer
\* is left armed for it), no later step of the scheduler calls processProposal
\* for it and its resolution record stays at error
C14_NoRerunAfterFailedResolution ==
    [][\A p \in Proposals :
          (/\ resolutionAudit[p].status = "error"
           /\ sched.timers[p] = 0
           /\ sched.started[p] = 0)
          => /\ ~Invoked(p)
             /\ resolutionAudit'[p].status = "error"]_vars

\* C14 as amended: a run of processProposal whose resolution failed does not
\* go on to the tally and leaves the tally record alone; the proposal's
\* records then stay as they are while processProposal is not called for it;
\* and the next cycle whose queries are answered puts it in its sweep again
C14_FailedResolutionWaitsForSweep ==
    [][\A p \in Proposals :
          /\ (Invoked(p) /\ ~lastOp'.success)
                => /\ ~lastOp'.tallyCalled
                   /\ tallyAudit'[p] = tallyAudit[p]
          /\ (resolutionAudit[p].status = "error" /\ ~Invoked(p))
                => /\ resolutionAudit'[p] = resolutionAudit[p]
                   /\ tallyAudit'[p] = tallyAudit[p]
          /\ (/\ resolutionAudit[p].status = "error"
              /\ deadline[p] < now
              /\ sched.phase = "idle"
              /\ sched'.phase = "sweep"
              /\ sched'.queried)
                => p \in Queued(sched')]_vars

\* a proposal whose first run failed in resolution and whose second run, made
\* by a sweep, completed resolution and tally
C14_Witness ==
    /\ lastOp.op = "processProposal"
    /\ lastOp.success
    /\ lastOp.tally.success
    /\ lastOp.proposal \in sched.ran
    /\ sched.invocations[lastOp.proposal] = 2
    /\ sched.failures[lastOp.proposal] = 1
    /\ tallyAudit[lastOp.proposal].status = "completed"

C16_SweepGoesOnAfterFailure ==
    [][(sched.phase = "sweep" /\ sched.queue # << >>)
        => /\ sched'.phase = "sweep"
           /\ sched'.queue \in {sched.queue, Tail(sched.queue)}
           /\ sched'.queue = Tail(sched.queue) => Invoked(Head(sched.queue))
           /\ (Invoked(Head(sched.queue)) /\ Head(sched.queue) \in sched'.ran
               /\ ~lastOp'.tally.success)
                => /\ sched'.queue = Tail(sched.queue)
                   /\ sched'.invocations = [sched.invocations EXCEPT
                                               ![Head(sched.queue)] = @ + 1]]_vars

\* a sweep over two proposals: the run of the first failed (as its run by
\* the timer had), and processProposal was then called for the second
C16_Witness ==
    /\ sched.phase = "sweep"
    /\ sched.queue = << >>
    /\ sched.ran = {1, 2}
    /\ sched.invocations[1] = 2
    /\ sched.failures[1] = 2
    /\ lastOp.op = "processProposal"
    /\ lastOp.proposal = 2
    /\ sched.invocations[2] = 2

----------------------------------------------------------------------------
(* RedisBackupManager: snapshots of a proposal's keys in table              *)
(* redis_snapshots, and their recovery                                      *)

SnapshotTypes == {"hourly", "pre_calculation", "manual"}

\* whether obj[k] of a JSON object read back from the table is there
Has(obj, k) == k \in DOMAIN obj

\* RedisVotingOps.setProposalStatus, without ttl
setProposalStatus(p, status) ==
    /\ meta' = [meta EXCEPT ![p].status = status]
    /\ lastOp' = [op |-> "setProposalStatus", proposal |-> p]
    /\ UNCHANGED <<storeVars, auditVars, clockVars, probe, inflight, sched, snapshots>>

\* the snapshotData object createSnapshot builds from its five reads
SnapshotData(p) ==
    [timestamp |-> now,
     votes |-> votes[p],
     delegations |-> delegations[p],
     participants |-> SortedSeq(participants[p]),
     status |-> meta[p].status,
     deadline |-> meta[p].deadline,
     vote_count |-> Cardinality(DOMAIN votes[p]),
     delegation_count |-> Cardinality(DOMAIN delegations[p]),
     participant_count |-> Cardinality(participants[p])]

\* insert into redis_snapshots, the database issuing the snapshot_id
InsertSnapshot(table, p, snapshotType, snapshotData) ==
    [rows |-> Append(table.rows,
                     [snapshot_id |-> table.issued + 1,
                      proposal_id |-> p,
                      redis_data |-> snapshotData,
                      snapshot_type |-> snapshotType]),
     issued |-> table.issued + 1]

\* createSnapshot(p, snapshotType): redisOk - the five reads succeed; dbOk -
\* the insert succeeds.  Gives what the call returns and the table afterwards.
SnapshotOutcome(table, p, snapshotType, redisOk, dbOk) ==
    IF redisOk /\ dbOk
    THEN [success |-> TRUE, snapshot_id |-> table.issued + 1,
          table |-> InsertSnapshot(table, p, snapshotType, SnapshotData(p))]
    ELSE [success |-> FALSE, snapshot_id |-> None, table |-> table]

createSnapshot(p, snapshotType, redisOk, dbOk) ==
    \E out \in {SnapshotOutcome(snapshots, p, snapshotType, redisOk, dbOk)} :
        /\ snapshots' = out.table
        /\ lastOp' = [op |-> "createSnapshot", proposal |-> p,
                      snapshot_type |-> snapshotType,
                      success |-> out.success, snapshot_id |-> out.snapshot_id]
        /\ UNCHANGED <<storeVars, auditVars, clockVars, probe, inflight, sched, meta>>

\* the positions in the table of the rows the restore query matches
RestoreMatches(table, p, snapshotId) ==
    {i \in 1..Len(table.rows) :
        /\ table.rows[i].proposal_id = p
        /\ snapshotId # None => table.rows[i].snapshot_id = snapshotId}

\* the row query.single() returns: the one with the given id, or the latest
\* by snapshot_at; an error when the query fails or matches nothing
RestoreSelect(table, p, snapshotId, dbOk) ==
    IF ~dbOk \/ RestoreMatches(table, p, snapshotId) = {}
    THEN [error |-> TRUE, data |-> None]
    ELSE [error |-> FALSE,
          data |-> table.rows[MaxOf(RestoreMatches(table, p, snapshotId))]]

\* the keys of the proposal as the pipeline leaves them: every key deleted,
\* then each non-empty part of the payload written
RestorePipeline(data) ==
    [votes |-> IF Has(data, "votes") /\ DOMAIN data.votes # {}
               THEN data.votes ELSE EmptyMap,
     delegations |-> IF Has(data, "delegations") /\ DOMAIN data.delegations # {}
                     THEN data.delegations ELSE EmptyMap,
     participants |-> IF Has(data, "participants") /\ Len(data.participants) > 0
                      THEN {data.participants[i] : i \in 1..Len(data.participants)}
                      ELSE {},
     status |-> IF Has(data, "status") THEN data.status ELSE NoKey,
     deadline |-> IF Has(data, "deadline") THEN data.deadline ELSE NoKey]

\* the keys of proposal p as they are
LiveKeys(p) ==
    [votes |-> votes[p], delegations |-> delegations[p],
     participants |-> participants[p],
     status |-> meta[p].status, deadline |-> meta[p].deadline]

\* a restore that deletes the proposal's keys before it looks at the snapshot
RestoreOutcome_ClearsFirst(p, snapshot) ==
    IF snapshot.error
    THEN [success |-> FALSE, error |-> "No snapshot found", keys |-> LiveKeys(p)]
    ELSE IF ~Has(snapshot.data.redis_data, "data")
    THEN [success |-> FALSE, error |-> "Invalid snapshot data structure",
          keys |-> RestorePipeline(EmptyMap)]
    ELSE [success |-> TRUE, error |-> "none",
          keys |-> RestorePipeline(snapshot.data.redis_data.data)]

\* restoreFromSnapshot once the row is selected: what it returns and the keys
\* of the proposal afterwards
RestoreOutcome(p, snapshot) ==
    IF snapshot.error
    THEN [success |-> FALSE, error |-> "No snapshot found", keys |-> LiveKeys(p)]
    ELSE IF ~Has(snapshot.data.redis_data, "data")
    THEN [success |-> FALSE, error |-> "Invalid snapshot data structure",
          keys |-> LiveKeys(p)]
    ELSE [success |-> TRUE, error |-> "none",
          keys |-> RestorePipeline(snapshot.data.redis_data.data)]

restoreFromSnapshot(p, snapshotId, dbOk) ==
    \E snapshot \in {RestoreSelect(snapshots, p, snapshotId, dbOk)} :
    \E out \in {RestoreOutcome(p, snapshot)} :
        /\ votes' = [votes EXCEPT ![p] = out.keys.votes]
        /\ delegations' = [delegations EXCEPT ![p] = out.keys.delegations]
        /\ participants' = [participants EXCEPT ![p] = out.keys.participants]
        /\ meta' = [meta EXCEPT ![p] = [status |-> out.keys.status,
                                        deadline |-> out.keys.deadline]]
        /\ lastOp' = [op |-> "restoreFromSnapshot", proposal |-> p,
                      snapshotId |-> snapshotId, selected |-> snapshot,
                      success |-> out.success, error |-> out.error]
        /\ UNCHANGED <<cooldown, auditVars, clockVars, probe, inflight, sched,
                       snapshots>>

----------------------------------------------------------------------------
(* SpecBackup: store writes on one proposal, with snapshots taken and       *)
(* restored at any point between them                                       *)

NumBackupWallets == 2

MaxBackupSnapshots == 1

BackupWallets == 1..NumBackupWallets

BackupStoreStep ==
    \E p \in StoreProposals :
        \/ \E a \in BackupWallets, o \in Options : castVote(p, a, o)
        \/ \E a, b \in BackupWallets : setDelegation(p, a, b)
        \/ \E a \in BackupWallets : removeVote(p, a)
        \/ \E a \in BackupWallets : removeDelegation(p, a)
        \/ setProposalStatus(p, "active")

BackupSnapshotStep ==
    \E p \in StoreProposals, redisOk, dbOk \in BOOLEAN :
        /\ Len(snapshots.rows) < MaxBackupSnapshots
        /\ createSnapshot(p, "manual", redisOk, dbOk)

BackupRestoreStep ==
    \E p \in StoreProposals, snapshotId \in {None} \cup 1..(MaxBackupSnapshots + 1),
       dbOk \in BOOLEAN :
        restoreFromSnapshot(p, snapshotId, dbOk)

NextBackup == BackupStoreStep \/ BackupSnapshotStep \/ BackupRestoreStep

SpecBackup == Init /\ [][NextBackup]_vars

\* C11: createSnapshot leaves the proposal's votes, delegations and
\* participants as they are, and a restoreFromSnapshot of that snapshot (by
\* its id or as the latest) run right after it leaves them as they were
\* before the snapshot
C11_RoundTripKeepsLiveData ==
    [][/\ lastOp'.op = "createSnapshot"
            => UNCHANGED <<votes, delegations, participants>>
       /\ (/\ lastOp.op = "createSnapshot"
           /\ lastOp.success
           /\ lastOp'.op = "restoreFromSnapshot"
           /\ lastOp'.proposal = lastOp.proposal
           /\ lastOp'.snapshotId \in {None, lastOp.snapshot_id})
            => UNCHANGED <<votes, delegations, participants>>]_vars

\* a restore of the snapshot just taken of a proposal holding a vote and a
\* delegation
C11_Witness ==
    /\ lastOp.op = "restoreFromSnapshot"
    /\ ~lastOp.selected.error
    /\ lastOp.selected.data.snapshot_id = snapshots.issued
    /\ lastOp.selected.data.redis_data.votes = votes[lastOp.proposal]
    /\ lastOp.selected.data.redis_data.delegations = delegations[lastOp.proposal]
    /\ DOMAIN votes[lastOp.proposal] # {}
    /\ DOMAIN delegations[lastOp.proposal] # {}

\* the keys of a proposal as a snapshot row recorded them
Captured(row) ==
    [votes |-> row.redis_data.votes,
     delegations |-> row.redis_data.delegations,
     participants |-> {row.redis_data.participants[i] :
                          i \in 1..Len(row.redis_data.participants)},
     status |-> row.redis_data.status,
     deadline |-> row.redis_data.deadline]

\* C12: a restoreFromSnapshot that finds the snapshot it was asked for (taken
\* earlier by createSnapshot, with any store writes since) reports success and
\* leaves the proposal's votes, delegations, participants, status and deadline
\* equal to the values the snapshot captured
C12_RestoreReproducesSnapshot ==
    (lastOp.op = "restoreFromSnapshot" /\ ~lastOp.selected.error)
    => /\ lastOp.success
       /\ LiveKeys(lastOp.proposal) = Captured(lastOp.selected.data)

----------------------------------------------------------------------------
(* RedisBackupManager: pruning and the hourly job *)

\* cleanupOldSnapshots: .range(HourlyKept, RangeLast) on the hourly rows,
\* newest first
HourlyKept == 10

RangeLast == 1000

\* the positions in the table of the hourly rows of proposal p
HourlyRows(table, p) ==
    {i \in 1..Len(table.rows) :
        /\ table.rows[i].proposal_id = p
        /\ table.rows[i].snapshot_type = "hourly"}

\* the hourly rows of proposal p, oldest first (rows are inserted in the order
\* of their snapshot_at)
HourlySnapshots(table, p) ==
    SelectSeq(table.rows,
              LAMBDA row : row.proposal_id = p /\ row.snapshot_type = "hourly")

\* order('snapshot_at', descending).range(10, 1000): of the rows listed newest
\* first, those at offsets 10 to 1000, both included (offset r of the
\* descending list is hourly[Len(hourly) - r])
RangeOf(hourly) ==
    {hourly[Len(hourly) - r].snapshot_id :
        r \in {q \in HourlyKept..RangeLast : q < Len(hourly)}}

\* the ids the range selects
RangeIds(table, p) == RangeOf(HourlySnapshots(table, p))

\* delete ... in('snapshot_id', ids)
DeleteSnapshots(table, ids) ==
    [table EXCEPT !.rows = SelectSeq(@, LAMBDA row : row.snapshot_id \notin ids)]

\* cleanupOldSnapshots(p): selectOk - the select answers (its error is not
\* looked at); deleteOk - the delete succeeds
CleanupOutcome(table, p, selectOk, deleteOk) ==
    LET ids == IF selectOk THEN RangeIds(table, p) ELSE {}
    IN  IF ids = {} THEN [success |-> TRUE, cleaned |-> 0, table |-> table]
        ELSE IF deleteOk
        THEN [success |-> TRUE, cleaned |-> Cardinality(ids),
              table |-> DeleteSnapshots(table, ids)]
        ELSE [success |-> FALSE, cleaned |-> 0, table |-> table]

cleanupOldSnapshots(p, selectOk, deleteOk) ==
    \E out \in {CleanupOutcome(snapshots, p, selectOk, deleteOk)} :
        /\ snapshots' = out.table
        /\ lastOp' = [op |-> "cleanupOldSnapshots", proposal |-> p,
                      success |-> out.success, cleaned |-> out.cleaned,
                      answered |-> selectOk /\ out.success]
        /\ UNCHANGED <<storeVars, auditVars, clockVars, probe, inflight, sched, meta>>

\* createBatchSnapshots: createSnapshot for each proposal of the list in turn;
\* failing - the proposals whose snapshot fails
RECURSIVE createBatchSnapshots(_, _, _, _)
createBatchSnapshots(table, proposalIds, snapshotType, failing) ==
    IF proposalIds = << >> THEN table
    ELSE createBatchSnapshots(
             SnapshotOutcome(table, Head(proposalIds), snapshotType,
                             TRUE, Head(proposalIds) \notin failing).table,
             Tail(proposalIds), snapshotType, failing)

\* createHourlySnapshots: the open proposals that have participants
ProposalsWithData ==
    {p \in Proposals : deadline[p] > now /\ Cardinality(participants[p]) > 0}

\* the hourly job (setInterval, every hour): selectOk - the select of the
\* open proposals succeeds
createHourlySnapshots(selectOk, failing) ==
    /\ snapshots' = IF selectOk
                    THEN createBatchSnapshots(snapshots, SortedSeq(ProposalsWithData),
                                              "hourly", failing)
                    ELSE snapshots
    /\ lastOp' = [op |-> "createHourlySnapshots", success |-> selectOk,
                  processed |-> IF selectOk THEN Cardinality(ProposalsWithData) ELSE 0,
                  failures |-> IF selectOk
                               THEN Cardinality(ProposalsWithData \cap failing) ELSE 0]
    /\ UNCHANGED <<storeVars, auditVars, clockVars, probe, inflight, sched, meta>>

----------------------------------------------------------------------------
(* SpecPrune: snapshots of every type piling up for one proposal that has a *)
(* participant, made by hand and by the hourly job, with the clean-up run   *)
(* at any point                                                             *)

MaxIssued == 13

\* the rows of type t the table holds for proposal p
CountOfType(p, t) ==
    Cardinality({i \in 1..Len(snapshots.rows) :
                    /\ snapshots.rows[i].proposal_id = p
                    /\ snapshots.rows[i].snapshot_type = t})

PruneVoteStep ==
    \E p \in StoreProposals :
        /\ participants[p] = {}
        /\ castVote(p, 1, 1)

PruneSnapshotStep ==
    \E p \in StoreProposals, t \in SnapshotTypes, dbOk \in BOOLEAN :
        /\ snapshots.issued < MaxIssued
        /\ t # "hourly" => CountOfType(p, t) = 0
        /\ createSnapshot(p, t, TRUE, dbOk)

PruneHourlyJobStep ==
    \E selectOk \in BOOLEAN, failing \in SUBSET StoreProposals :
        /\ snapshots.issued < MaxIssued
        /\ createHourlySnapshots(selectOk, failing)

PruneCleanupStep ==
    \E p \in StoreProposals, selectOk, deleteOk \in BOOLEAN :
        cleanupOldSnapshots(p, selectOk, deleteOk)

NextPrune ==
    PruneVoteStep \/ PruneSnapshotStep \/ PruneHourlyJobStep \/ PruneCleanupStep

SpecPrune == Init /\ [][NextPrune]_vars

\* the ids of the rows of proposal p of the given types
IdsOfTypes(table, p, types) ==
    {table.rows[i].snapshot_id :
        i \in {j \in 1..Len(table.rows) :
                  /\ table.rows[j].proposal_id = p
                  /\ table.rows[j].snapshot_type \in types}}

\* the oldest hourly row of proposal p
OldestHourly(table, p) ==
    table.rows[CHOOSE i \in HourlyRows(table, p) :
                  \A j \in HourlyRows(table, p) : i <= j].snapshot_id

\* C13: no step leaves a proposal with more than 10 hourly snapshots; a
\* createSnapshot or hourly job that adds an hourly snapshot to the 10 a
\* proposal has removes the oldest of them; and no step removes a
\* pre_calculation or manual snapshot
C13_HourlyPrunedToTen ==
    [][\A p \in StoreProposals :
          /\ Cardinality(IdsOfTypes(snapshots', p, {"hourly"})) <= 10
          /\ (/\ Cardinality(IdsOfTypes(snapshots, p, {"hourly"})) = 10
              /\ lastOp'.op \in {"createSnapshot", "createHourlySnapshots"}
              /\ snapshots'.issued > snapshots.issued
              /\ IdsOfTypes(snapshots', p, {"hourly"})
                    # IdsOfTypes(snapshots, p, {"hourly"}))
                => OldestHourly(snapshots, p)
                      \notin IdsOfTypes(snapshots', p, {"hourly"})
          /\ IdsOfTypes(snapshots, p, {"pre_calculation", "manual"})
                \subseteq IdsOfTypes(snapshots', p, {"pre_calculation", "manual"})]_vars

----------------------------------------------------------------------------
(* SpecRate: the four mutating routes served by several handlers at once.   *)
(* Every await of a route is a point where another request may run, and one *)
(* wallet may have several requests in service: nothing in the routes       *)
(* serialises the requests of a wallet.                                     *)

NumRateHandlers == 2

RateHandlers == 1..NumRateHandlers

\* the requests are those of one wallet
RateWallets == {1}

\* the wallets a delegate request may name as its target
RateTargets == Wallets \ RateWallets

RateKinds == {"vote", "delegate", "remove_vote", "remove_delegation"}

RateArgs(kind) ==
    CASE kind = "vote" -> Options
      [] kind = "delegate" -> RateTargets
      [] OTHER -> {None}

\* the answer of a route, and whether the wallet's cooldown key was in place
\* when the route went on to set it
Answer(p, request, status) ==
    [op |-> "answer", proposal |-> p, wallet |-> toLowerCase(request.wallet),
     kind |-> request.kind, status |-> status,
     during |-> checkCooldown(request.wallet, p)]

\* checkRateLimit, first await of every mutating route: 429 while the key is set
RouteCheckRate(p, h, w, kind, arg) ==
    /\ inflight[h] = NoRequest
    /\ \E request \in {[kind |-> kind, arg |-> arg, pc |-> "access", wallet |-> w,
                        via |-> "route", alongside |-> {}]} :
          IF checkCooldown(w, p)
          THEN /\ lastOp' = Answer(p, request, "rate_limited")
               /\ UNCHANGED inflight
          ELSE /\ Serve(h, request)
               /\ UNCHANGED lastOp
    /\ UNCHANGED <<storeVars, auditVars, clockVars, probe, sched, backupVars>>

\* what the route's own checks answer once the rate limit is passed
RouteChecks(p, request) ==
    IF ~validateProposalAccess(p, TRUE) THEN "denied"
    ELSE CASE request.kind = "vote" ->
                  IF request.arg \in {ProposalOptions(p)[i] :
                                          i \in 1..Len(ProposalOptions(p))}
                  THEN "ok" ELSE "invalid_option"
           [] request.kind = "delegate" ->
                  IF detectCyclesDFS(p, request.wallet, request.arg).hasCycle
                  THEN "cycle" ELSE "ok"
           [] request.kind = "remove_vote" ->
                  IF getUserVote(p, request.wallet) = None
                  THEN "not_found" ELSE "ok"
           [] OTHER ->
                  IF getUserDelegation(p, request.wallet) = None
                  THEN "not_found" ELSE "ok"

\* validateProposalAccess and the route's own checks
RouteValidate(p, h) ==
    /\ inflight[h].pc = "access"
    /\ \E status \in {RouteChecks(p, inflight[h])} :
          IF status = "ok"
          THEN /\ Serve(h, [inflight[h] EXCEPT
                               !.pc = IF inflight[h].kind \in {"vote", "delegate"}
                                      THEN "hset" ELSE "hdel"])
               /\ UNCHANGED lastOp
          ELSE /\ Serve(h, NoRequest)
               /\ lastOp' = Answer(p, inflight[h], status)
    /\ UNCHANGED <<storeVars, auditVars, clockVars, probe, sched, backupVars>>

\* first store command of castVote / setDelegation
StepHset(p, h) ==
    /\ inflight[h].pc = "hset"
    /\ IF inflight[h].kind = "delegate"
       THEN /\ delegations' = [delegations EXCEPT
                                  ![p] = hset(@, toLowerCase(inflight[h].wallet),
                                              toLowerCase(inflight[h].arg))]
            /\ votes' = votes
       ELSE /\ votes' = [votes EXCEPT
                            ![p] = hset(@, toLowerCase(inflight[h].wallet),
                                        toString(inflight[h].arg))]
            /\ delegations' = delegations
    /\ Serve(h, [inflight[h] EXCEPT !.pc = "sadd"])
    /\ UNCHANGED <<participants, cooldown, auditVars, clockVars, lastOp, probe,
                   sched, backupVars>>

\* second store command of castVote / setDelegation
StepSadd(p, h) ==
    /\ inflight[h].pc = "sadd"
    /\ participants' = [participants EXCEPT
                           ![p] = sadd(@, toLowerCase(inflight[h].wallet))]
    /\ Serve(h, [inflight[h] EXCEPT !.pc = "hdel"])
    /\ UNCHANGED <<votes, delegations, cooldown, auditVars, clockVars, lastOp,
                   probe, sched, backupVars>>

\* castVote / setDelegation ending without the hdel of the opposite hash
StepHdel_KeepsOpposite(p, h) ==
    /\ inflight[h].pc = "hdel"
    /\ IF inflight[h].kind = "remove_vote"
       THEN /\ votes' = [votes EXCEPT ![p] = hdel(@, toLowerCase(inflight[h].wallet))]
            /\ delegations' = delegations
       ELSE IF inflight[h].kind = "remove_delegation"
       THEN /\ delegations' = [delegations EXCEPT
                                  ![p] = hdel(@, toLowerCase(inflight[h].wallet))]
            /\ votes' = votes
       ELSE UNCHANGED <<votes, delegations>>
    /\ IF inflight[h].via = "route"
       THEN /\ Serve(h, [inflight[h] EXCEPT !.pc = "cooldown"])
            /\ UNCHANGED lastOp
       ELSE /\ Serve(h, NoRequest)
            /\ lastOp' = [op |-> "returned", proposal |-> p,
                          wallet |-> toLowerCase(inflight[h].wallet),
                          kind |-> inflight[h].kind,
                          alongside |-> inflight[h].alongside]
    /\ UNCHANGED <<participants, cooldown, auditVars, clockVars, probe, sched,
                   backupVars>>

\* last store command of castVote / setDelegation (the opposite hash), and the
\* only one of removeVote / removeDelegation (the operation's own hash)
StepHdel(p, h) ==
    /\ inflight[h].pc = "hdel"
    /\ IF inflight[h].kind \in {"delegate", "remove_vote"}
       THEN /\ votes' = [votes EXCEPT ![p] = hdel(@, toLowerCase(inflight[h].wallet))]
            /\ delegations' = delegations
       ELSE /\ delegations' = [delegations EXCEPT
                                  ![p] = hdel(@, toLowerCase(inflight[h].wallet))]
            /\ votes' = votes
    /\ IF inflight[h].via = "route"
       THEN /\ Serve(h, [inflight[h] EXCEPT !.pc = "cooldown"])
            /\ UNCHANGED lastOp
       ELSE /\ Serve(h, NoRequest)
            /\ lastOp' = [op |-> "returned", proposal |-> p,
                          wallet |-> toLowerCase(inflight[h].wallet),
                          kind |-> inflight[h].kind,
                          alongside |-> inflight[h].alongside]
    /\ UNCHANGED <<participants, cooldown, auditVars, clockVars, probe, sched,
                   backupVars>>

\* the route setting the cooldown without looking at it again
StepCooldown(p, h) ==
    /\ inflight[h].pc = "cooldown"
    /\ setCooldown(inflight[h].wallet, p)
    /\ lastOp' = Answer(p, inflight[h], "ok")
    /\ Serve(h, NoRequest)
    /\ UNCHANGED <<votes, delegations, participants, auditVars, clockVars,
                   probe, sched, backupVars>>

RateArriveStep ==
    \E p \in StoreProposals, h \in RateHandlers, w \in RateWallets,
       kind \in RateKinds :
        \E arg \in RateArgs(kind) : RouteCheckRate(p, h, w, kind, arg)

RateValidateStep == \E p \in StoreProposals, h \in RateHandlers : RouteValidate(p, h)

RateWriteStep ==
    \E p \in StoreProposals, h \in RateHandlers :
        \/ StepHset(p, h)
        \/ StepSadd(p, h)
        \/ StepHdel(p, h)
        \/ StepCooldown(p, h)

RateExpiryStep ==
    \E p \in StoreProposals, w \in RateWallets : CooldownExpires(w, p)

NextRate == RateArriveStep \/ RateValidateStep \/ RateWriteStep \/ RateExpiryStep

SpecRate == Init /\ [][NextRate]_vars

\* C21: a mutating request of a wallet on a proposal is accepted only while no
\* cooldown set by an earlier accepted request of that wallet on that proposal
\* is in place
C21_OneAcceptedPerCooldown ==
    (lastOp.op = "answer" /\ lastOp.status = "ok") => ~lastOp.during

----------------------------------------------------------------------------
(* castVote called again with the arguments of the call before it *)

\* C22: a castVote(P, w, o) that follows a castVote(P, w, o), with no other
\* store operation between the two, changes neither the votes nor the
\* delegations nor the participant set
C22_CastVoteIdempotent ==
    [][(/\ lastOp.op = "castVote"
        /\ lastOp'.op = "castVote"
        /\ lastOp'.proposal = lastOp.proposal
        /\ lastOp'.wallet = lastOp.wallet
        /\ lastOp'.target = lastOp.target)
       => UNCHANGED <<votes, delegations, participants>>]_vars

\* a castVote has run for a wallet that held a vote and no delegation, and
\* the wallet holds the vote the call names
C22_Witness ==
    /\ lastOp.op = "castVote"
    /\ lastOp.before.has_voted
    /\ ~lastOp.before.has_delegated
    /\ getUserVote(lastOp.proposal, lastOp.wallet) = lastOp.target
    /\ lastOp.wallet \in participants[lastOp.proposal]

----------------------------------------------------------------------------
(* RedisBackupManager.verifyProposalData *)

\* hgetall answers null, not an empty object, for a key that holds no hash
\* (a hash without fields does not exist); the other readers guard it with
\* `|| {}` after the await
HgetallNull(h) == DOMAIN h = {}

\* `hgetall(...) || {}` inside Promise.all: the operand of || is the pending
\* promise, which is truthy, so the awaited value is what hgetall answers.
\* Object.keys(null) throws, and so does null[wallet] in the first loop.
VerifyThrows(votesHash, delegationsHash) ==
    \/ HgetallNull(votesHash)
    \/ DOMAIN votesHash # {} /\ HgetallNull(delegationsHash)

\* the two loops: the issues found, as the wallets they name
VerifyIssues(votesHash, delegationsHash) ==
    [both |-> {wallet \in DOMAIN votesHash : wallet \in DOMAIN delegationsHash},
     self |-> {delegator \in DOMAIN delegationsHash :
                   delegator = delegationsHash[delegator]}]

verifyProposalData(p) ==
    IF VerifyThrows(votes[p], delegations[p])
    THEN [valid |-> FALSE, failed |-> TRUE, issues |-> [both |-> {}, self |-> {}]]
    ELSE LET issues == VerifyIssues(votes[p], delegations[p])
         IN  [valid |-> issues.both = {} /\ issues.self = {},
              failed |-> FALSE,
              issues |-> issues]

\* C23: verifyProposalData answers valid=false exactly when some wallet is a
\* key of both hashes or some delegator delegates to itself
C23_InvalidExactlyOnCorruption ==
    \A p \in StoreProposals :
        verifyProposalData(p).valid
            = ~(\/ \E w \in DOMAIN votes[p] : w \in DOMAIN delegations[p]
                \/ \E d \in DOMAIN delegations[p] : delegations[p][d] = d)

----------------------------------------------------------------------------
(* Scenario: A -> B is the only delegation and B asks to delegate to A *)

\* the step is a delegate request that got as far as the cycle check, made by
\* the delegate of the single delegation of the proposal and naming its
\* delegator as the target
SecondEdgeBack ==
    /\ lastOp'.op = "delegate"
    /\ lastOp' # lastOp
    /\ lastOp'.status \in {"cycle", "ok"}
    /\ lastOp'.wallet # lastOp'.target
    /\ getAllDelegations(lastOp'.proposal) = (lastOp'.target :> lastOp'.wallet)

\* C24 as stated: with the single delegation A -> B, the request B -> A is
\* rejected with a cycle whose path is [B, A]
C24_PathDelegatorFirst ==
    [][SecondEdgeBack
       => /\ lastOp'.status = "cycle"
          /\ lastOp'.cycleCheck.hasCycle
          /\ lastOp'.cycleCheck.cyclePath = <<lastOp'.wallet, lastOp'.target>>]_vars

\* C24, amended: with the single delegation A -> B, the request B -> A is
\* rejected with a cycle whose path is the walk from the target to the
\* delegator, [A, B]
C24_PathTargetFirst ==
    [][SecondEdgeBack
       => /\ lastOp'.status = "cycle"
          /\ lastOp'.cycleCheck.hasCycle
          /\ lastOp'.cycleCheck.cyclePath = <<lastOp'.target, lastOp'.wallet>>]_vars

\* B's request has been rejected, A -> B still being the only delegation
C24_Witness ==
    /\ lastOp.op = "delegate"
    /\ lastOp.status = "cycle"
    /\ lastOp.wallet # lastOp.target
    /\ getAllDelegations(lastOp.proposal) = (lastOp.target :> lastOp.wallet)
    /\ Len(lastOp.cycleCheck.cyclePath) = 2

----------------------------------------------------------------------------
(* SpecCleanup: cleanupOldSnapshots run by hand on tables of both sizes     *)
(* that matter.  Nothing in the repository calls cleanupOldSnapshots, so    *)
(* the hourly job leaves one more hourly row per hour for as long as a      *)
(* proposal with a participant is open: the specification starts after 9    *)
(* runs of the job, or after 1000 of them (six weeks), with one vote cast   *)
(* in proposal 1, and goes on with snapshots of either proposal.            *)

MaxCleanupAdded == 3

PrefilledCounts == {HourlyKept - 1, RangeLast}

\* the table after n runs of the hourly job over an unchanged store
HourlyJobRan(n) ==
    [rows |-> [i \in 1..n |->
                  [snapshot_id |-> i, proposal_id |-> 1,
                   redis_data |-> SnapshotData(1), snapshot_type |-> "hourly"]],
     issued |-> n]

InitCleanup ==
    /\ votes = [p \in Proposals |-> IF p = 1 THEN hset(EmptyMap, 1, toString(1))
                                    ELSE EmptyMap]
    /\ delegations = [p \in Proposals |-> EmptyMap]
    /\ participants = [p \in Proposals |-> IF p = 1 THEN {1} ELSE {}]
    /\ cooldown = {}
    /\ NoAudit
    /\ now = 0
    /\ deadline = [p \in Proposals |-> 1]
    /\ lastOp = NoOp
    /\ probe = NoProbe
    /\ NoRequests
    /\ SchedulerAtStart
    /\ meta = [p \in Proposals |-> [status |-> NoKey, deadline |-> NoKey]]
    /\ \E n \in PrefilledCounts : snapshots = HourlyJobRan(n)

CleanupSnapshotStep ==
    \E p \in Proposals, t \in SnapshotTypes, dbOk \in BOOLEAN :
        /\ snapshots.issued \notin {n + MaxCleanupAdded : n \in PrefilledCounts}
        /\ createSnapshot(p, t, TRUE, dbOk)

CleanupRunStep ==
    \E p \in Proposals, selectOk, deleteOk \in BOOLEAN :
        cleanupOldSnapshots(p, selectOk, deleteOk)

NextCleanup == CleanupSnapshotStep \/ CleanupRunStep

SpecCleanup == InitCleanup /\ [][NextCleanup]_vars

\* the ids of all rows of the table
AllIds(table) == {table.rows[i].snapshot_id : i \in 1..Len(table.rows)}

\* the rows of a list whose id is among ids, in the order of the list
RowsWithIds(rows, ids) == SelectSeq(rows, LAMBDA row : row.snapshot_id \in ids)

\* the ids of the rows of a list that are not among its 10 last
NotAmongNewest(hourly) ==
    {hourly[k].snapshot_id : k \in {q \in 1..Len(hourly) : q + HourlyKept <= Len(hourly)}}

\* the hourly snapshots of proposal p that are not among its 10 most recent
OldHourlyIds(table, p) ==
    NotAmongNewest(SelectSeq(table.rows,
                             LAMBDA row : /\ row.proposal_id = p
                                          /\ row.snapshot_type = "hourly"))

\* C25: a cleanupOldSnapshots(P) deletes only hourly snapshots of P that are
\* not among P's 10 most recent hourly snapshots, it deletes every one of
\* them when the database answers its calls, and the rows it keeps stay as
\* they were
C25_CleanupDeletesExactlyOld ==
    [][lastOp'.op = "cleanupOldSnapshots"
       => /\ AllIds(snapshots) \ AllIds(snapshots')
                \subseteq OldHourlyIds(snapshots, lastOp'.proposal)
          /\ lastOp'.answered
                => AllIds(snapshots) \ AllIds(snapshots')
                      = OldHourlyIds(snapshots, lastOp'.proposal)
          /\ snapshots'.rows = RowsWithIds(snapshots.rows, AllIds(snapshots'))]_vars

----------------------------------------------------------------------------
(* SpecCalls: castVote and setDelegation called concurrently for one wallet *)
(* and one proposal, each call being its three awaited store commands, with *)
(* the commands of the calls in service interleaved in every order.         *)

CallKinds == {"vote", "delegate"}

\* the calls of wallet w that handlers other than h are running
CallsAlongside(h, w) ==
    {g \in RateHandlers \ {h} : inflight[g] # NoRequest /\ inflight[g].wallet = w}

\* castVote(p, w, arg) or setDelegation(p, w, arg) is called: nothing is
\* awaited before the call's first store command.  Each call keeps the kinds of
\* the calls of the same wallet that were in service at some point of its run.
CallBegins(p, h, w, kind, arg) ==
    /\ inflight[h] = NoRequest
    /\ inflight' =
          [g \in DOMAIN inflight |->
              IF g = h
              THEN [kind |-> kind, arg |-> arg, pc |-> "hset", wallet |-> w,
                    via |-> "call",
                    alongside |-> {inflight[f].kind : f \in CallsAlongside(h, w)}]
              ELSE IF g \in CallsAlongside(h, w)
              THEN [inflight[g] EXCEPT !.alongside = @ \cup {kind}]
              ELSE inflight[g]]
    /\ UNCHANGED <<storeVars, auditVars, clockVars, lastOp, probe, sched, backupVars>>

CallBeginStep ==
    \E p \in StoreProposals, h \in RateHandlers, w \in RateWallets,
       kind \in CallKinds :
        \E arg \in RateArgs(kind) : CallBegins(p, h, w, kind, arg)

CallWriteStep ==
    \E p \in StoreProposals, h \in RateHandlers :
        \/ StepHset(p, h)
        \/ StepSadd(p, h)
        \/ StepHdel(p, h)

NextCalls == CallBeginStep \/ CallWriteStep

SpecCalls == Init /\ [][NextCalls]_vars

\* every call made so far has returned
AllReturned ==
    /\ lastOp.op = "returned"
    /\ \A h \in RateHandlers : inflight[h] = NoRequest

\* C26: once all the calls have returned, no wallet holds both a vote and a
\* delegation
C26_NotBothWhenDone ==
    AllReturned
        => \A p \in StoreProposals, w \in RateWallets :
              ~(/\ getUserVote(p, w) # None
                /\ getUserDelegation(p, w) # None)

\* a castVote that ran alongside a setDelegation of the same wallet was the
\* last call to return, and the wallet is left with one of the two
C26_Witness ==
    /\ AllReturned
    /\ lastOp.kind = "vote"
    /\ "delegate" \in lastOp.alongside
    /\ (getUserVote(lastOp.proposal, lastOp.wallet) # None)
          # (getUserDelegation(lastOp.proposal, lastOp.wallet) # None)

\* C27: once all the calls have returned, the wallet of the calls holds a
\* vote or a delegation
C27_NotNeitherWhenDone ==
    AllReturned
        => \/ getUserVote(lastOp.proposal, lastOp.wallet) # None
           \/ getUserDelegation(lastOp.proposal, lastOp.wallet) # None

----------------------------------------------------------------------------
(* SpecRead: the resolver reading the store while calls of castVote and     *)
(* setDelegation are between two of their store commands.  The calls are    *)
(* made while voting is open; a call that is in progress when the deadline  *)
(* passes goes on, and the resolver runs from the deadline on.              *)

ReadCallStep ==
    \E p \in StoreProposals, h \in RateHandlers, w \in RateWallets,
       kind \in CallKinds :
        /\ VotingOpen(p)
        /\ \E arg \in RateArgs(kind) : CallBegins(p, h, w, kind, arg)

ReadResolveStep ==
    \E p \in StoreProposals :
        /\ ~VotingOpen(p)
        /\ resolveBulkDelegations(p, TRUE, TRUE)

NextRead == ReadCallStep \/ CallWriteStep \/ DeadlinePasses \/ ReadResolveStep

SpecRead == Init /\ [][NextRead]_vars

\* C28: in the voting powers a successful resolveBulkDelegations computes, a
\* wallet that had an outgoing delegation in the store it read holds what the
\* delegators resolved to it contribute and nothing for itself, whether or
\* not it was also in the votes hash
C28_DelegatorsGetNoSelfUnit ==
    [][(/\ lastOp'.op = "resolveBulkDelegations"
        /\ lastOp'.success
        /\ inflight' = inflight
        /\ resolutionAudit'[lastOp'.proposal].status = "completed")
       => \A w \in DOMAIN getAllDelegations(lastOp'.proposal) :
             Lookup(resolutionAudit'[lastOp'.proposal].votingPowers, w)
                = Cardinality(
                      {d \in DOMAIN resolutionAudit'[lastOp'.proposal].delegationResolution :
                          resolutionAudit'[lastOp'.proposal].delegationResolution[d] = w})]_vars

----------------------------------------------------------------------------
(* SpecHops: a wallet outside a long chain asking to delegate into it.  The *)
(* chain w1 -> w2 -> ... grows at its tail by accepted requests, as in      *)
(* SpecChain; a setDelegation call that bypasses the route may close it     *)
(* into a cycle (the corruption the detector is said to tolerate); and the  *)
(* joiner, a wallet that is not on the chain, posts delegate requests whose *)
(* target is a wallet of the chain.                                         *)

Joiner == MaxChain + 1

\* the targets the joiner names: the head of the chain and the wallet after it
JoinTargets == {1, 2}

HopsGrowStep ==
    \E p \in StoreProposals :
        /\ Acyclic(getAllDelegations(p))
        /\ Joiner \notin DOMAIN delegations[p]
        /\ ChainSink(p) + 1 \in ChainWallets
        /\ DelegateRequest(p, ChainSink(p), ChainSink(p) + 1, TRUE)

\* the wallet at the end of the chain is made to delegate to the head
HopsCloseStep ==
    \E p \in StoreProposals :
        /\ Acyclic(getAllDelegations(p))
        /\ Joiner \notin DOMAIN delegations[p]
        /\ setDelegation(p, ChainSink(p), 1)

HopsJoinStep ==
    \E p \in StoreProposals, t \in JoinTargets :
        DelegateRequest(p, Joiner, t, TRUE)

HopsExpiryStep == \E p \in StoreProposals : CooldownExpires(Joiner, p)

NextHops == HopsGrowStep \/ HopsCloseStep \/ HopsJoinStep \/ HopsExpiryStep

SpecHops == Init /\ [][NextHops]_vars

\* the step is a delegate request that got as far as the cycle check and whose
\* delegator is not on the walk from its target
CheckedOffWalk ==
    /\ lastOp'.op = "delegate"
    /\ lastOp' # lastOp
    /\ lastOp'.status \in {"cycle", "ok"}
    /\ ~lastOp'.closes

\* C29: a request whose walk from the target comes back, within the hop limit,
\* to a wallet it has visited, the delegator not being on the walk, is
\* reported free of cycles and accepted
C29_ForeignCycleTolerated ==
    [][(/\ CheckedOffWalk
        /\ ~lastOp'.walk.endsAtSink
        /\ lastOp'.walk.wallets <= MaxHops)
       => /\ ~lastOp'.cycleCheck.hasCycle
          /\ lastOp'.status = "ok"]_vars

\* C30: a request whose walk from the target reaches, after at most 100 hops
\* and without meeting the delegator, a wallet without delegation is reported
\* free of cycles
C30_SinkWithinLimitAccepted ==
    [][(/\ CheckedOffWalk
        /\ lastOp'.walk.endsAtSink
        /\ lastOp'.walk.wallets - 1 <= MaxHops)
       => ~lastOp'.cycleCheck.hasCycle]_vars

----------------------------------------------------------------------------
(* SpecWalks: the resolver on delegation maps of every shape.  The map is   *)
(* written by setDelegation calls that bypass the route's cycle check: a    *)
(* chain w1 -> w2 -> ... of any length up to MaxChain, whose last wallet    *)
(* may be made to delegate to itself, to the head of the chain or to the    *)
(* wallet after the head; the proposal is resolved after its deadline.      *)

WalksGrowStep ==
    \E p \in StoreProposals :
        /\ VotingOpen(p)
        /\ Acyclic(getAllDelegations(p))
        /\ ChainSink(p) + 1 \in ChainWallets
        /\ setDelegation(p, ChainSink(p), ChainSink(p) + 1)

WalksCloseStep ==
    \E p \in StoreProposals, t \in {1, 2} :
        /\ VotingOpen(p)
        /\ Acyclic(getAllDelegations(p))
        /\ setDelegation(p, ChainSink(p), IF ChainSink(p) = 1 THEN 1 ELSE t)

WalksResolveStep ==
    \E p \in StoreProposals :
        /\ ~VotingOpen(p)
        /\ resolutionAudit[p].status = "none"
        /\ resolveBulkDelegations(p, TRUE, TRUE)

NextWalks == WalksGrowStep \/ WalksCloseStep \/ DeadlinePasses \/ WalksResolveStep

SpecWalks == Init /\ [][NextWalks]_vars

\* path is a walk along the edges of delegs that starts at d and visits no
\* wallet twice
IsWalk(delegs, d, path) ==
    /\ Len(path) >= 1
    /\ path[1] = d
    /\ \A i \in 1..(Len(path) - 1) : Lookup(delegs, path[i]) = path[i + 1]
    /\ Cardinality({path[i] : i \in 1..Len(path)}) = Len(path)

\* the walk stopped where the resolver is said to stop: at a wallet without
\* delegation, after 100 hops, or where the next wallet is one already visited
StopsWhereSaid(delegs, path) ==
    \/ Lookup(delegs, path[Len(path)]) = None
    \/ Len(path) - 1 = MAX_CHAIN_LENGTH
    \/ Lookup(delegs, path[Len(path)]) \in {path[i] : i \in 1..Len(path)}

\* C31: the resolution of any delegation map, cyclic or not, gives every
\* delegator one final delegate, the last wallet of a walk from the delegator
\* that ends at a sink, at the hop limit or before the first revisited wallet
C31_EveryWalkEnds ==
    \A p \in StoreProposals :
        resolutionAudit[p].status = "completed"
            => \A delegs \in {getAllDelegations(p)} :
               \A row \in {resolutionAudit[p]} :
                  /\ DOMAIN row.delegationResolution = DOMAIN delegs
                  /\ DOMAIN row.auditTrail = DOMAIN delegs
                  /\ \A d \in DOMAIN delegs :
                        /\ IsWalk(delegs, d, row.auditTrail[d].path)
                        /\ StopsWhereSaid(delegs, row.auditTrail[d].path)
                        /\ row.auditTrail[d].length - 1 <= MAX_CHAIN_LENGTH
                        /\ row.delegationResolution[d]
                              = row.auditTrail[d].path[Len(row.auditTrail[d].path)]

\* a map with a cycle has been resolved: some delegator's walk of three or
\* more wallets ends at a wallet that delegates back into the walk
C31_Witness ==
    \E p \in StoreProposals :
        /\ resolutionAudit[p].status = "completed"
        /\ \E d \in DOMAIN resolutionAudit[p].auditTrail :
              /\ resolutionAudit[p].auditTrail[d].length >= 3
              /\ Lookup(getAllDelegations(p), resolutionAudit[p].delegationResolution[d])
                    \in {1, 2}

----------------------------------------------------------------------------
(* The store that accepted delegate requests build, as the resolver sees it *)

\* C32: in every store built by accepted delegate requests, the final
\* delegate resolveChainForUser computes for a delegator is a wallet without
\* outgoing delegation
C32_AcceptedChainsResolveToSinks ==
    \A p \in StoreProposals :
        \A graph \in {buildDelegationGraph(getAllDelegations(p))} :
            \A d \in DOMAIN graph :
                resolveChainForUser(d, graph).finalDelegate \notin DOMAIN graph

----------------------------------------------------------------------------
(* The winner and the declared options *)

----------------------------------------------------------------------------
(* The finalization timers *)

\* C35: each proposal has at most one armed finalization timer, and it is in
\* activeTimeouts exactly while a timer for it is pending
C35_OneTimerInMap ==
    \A p \in Proposals :
        /\ sched.timers[p] <= 1
        /\ p \in sched.activeTimeouts <=> sched.timers[p] > 0

\* C37: every call of processProposal the scheduler makes for a proposal is
\* made at or after the proposal's voting deadline; the calls of a sweep are
\* for proposals whose deadline is in the past
C37_NoRunBeforeDeadline ==
    [][\A p \in Proposals :
          /\ Invoked(p) => now >= deadline[p]
          /\ (Invoked(p) /\ sched.phase = "sweep" /\ sched.queue # << >>
              /\ Head(sched.queue) = p /\ sched'.queue = Tail(sched.queue)
              /\ sched'.started = sched.started /\ sched'.timers = sched.timers)
                => deadline[p] < now]_vars

\* a proposal run by its timer in the hour of its deadline, after another
\* proposal was run by a sweep
C37_Witness ==
    /\ lastOp.op = "processProposal"
    /\ now = deadline[lastOp.proposal]
    /\ sched.invocations[lastOp.proposal] = 1
    /\ sched.timers[lastOp.proposal] = 0
    /\ sched.started[lastOp.proposal] = 0
    /\ lastOp.proposal \notin sched.ran
    /\ \E q \in Proposals \ {lastOp.proposal} :
          /\ q \in sched.ran
          /\ sched.invocations[q] > 0
          /\ deadline[q] < now

----------------------------------------------------------------------------
(* The two audit rows of a proposal *)

\* C34: a proposal whose tally row has status completed has a resolution row
\* with status completed
C34_CompletedTallyHasResolution ==
    \A p \in Proposals :
        tallyAudit[p].status = "completed" => resolutionAudit[p].status = "completed"

----------------------------------------------------------------------------
(* SpecRun: the routes and processProposal around the deadline.  A request  *)
(* is checked against the deadline once, in validateProposalAccess, and its *)
(* store commands follow after further awaits; processProposal awaits the   *)
(* resolution and then the tally, and several runs for one proposal may be  *)
(* in progress (a timer and a sweep, two timers).  Every await is a point   *)
(* where the clock may move and another request or run may take a step.     *)

NumRuns == 2

RunHandlers == (NumRateHandlers + 1)..(NumRateHandlers + NumRuns)

\* a run of processProposal awaiting its tally, with the delegationResult it holds
RunAtTally(p, result) ==
    [kind |-> "processProposal", arg |-> p, pc |-> "tally",
     votingPowers |-> result.votingPowers]

\* processProposal up to the end of its await of resolveBulkDelegations
RunResolve(p, r, redisOk, dbOk) ==
    /\ inflight[r] = NoRequest
    /\ now >= deadline[p]
    /\ \E out \in {ResolveOutcome(p, resolutionAudit[p], redisOk, dbOk)} :
          /\ resolutionAudit' = [resolutionAudit EXCEPT ![p] = out.row]
          /\ Serve(r, IF out.success THEN RunAtTally(p, out) ELSE NoRequest)
          /\ lastOp' = [op |-> "resolveBulkDelegations", proposal |-> p,
                        success |-> out.success, votingPowers |-> out.votingPowers]
    /\ UNCHANGED <<storeVars, tallyAudit, clockVars, probe, sched, backupVars>>

\* processProposal from there on: the await of calculateFinalResults
RunTally(p, r, dbRead, redisOk, proposalOk, dbOk) ==
    /\ inflight[r].pc = "tally"
    /\ inflight[r].arg = p
    /\ \E out \in {TallyOutcome(p, resolutionAudit[p], tallyAudit[p],
                                dbRead, redisOk, proposalOk, dbOk)} :
          /\ tallyAudit' = [tallyAudit EXCEPT ![p] = out.row]
          /\ lastOp' = [op |-> "processProposal", proposal |-> p,
                        success |-> TRUE, votingPowers |-> inflight[r].votingPowers,
                        tallyCalled |-> TRUE,
                        resolutionStatus |-> resolutionAudit[p].status,
                        tally |-> [x \in DOMAIN out \ {"row"} |-> out[x]]]
    /\ Serve(r, NoRequest)
    /\ UNCHANGED <<storeVars, resolutionAudit, clockVars, probe, sched, backupVars>>

\* handler h is the first of the handlers H that serves nothing (which of the
\* idle handlers takes a request or a run makes no difference)
FirstIdle(H, h) ==
    /\ inflight[h] = NoRequest
    /\ \A g \in H : g < h => inflight[g] # NoRequest

\* a request arrives while voting is open
RunArriveStep ==
    \E p \in StoreProposals, h \in RateHandlers, w \in RateWallets,
       kind \in RateKinds :
        /\ VotingOpen(p)
        /\ FirstIdle(RateHandlers, h)
        /\ \E arg \in RateArgs(kind) : RouteCheckRate(p, h, w, kind, arg)

\* the resolution step of a run; the upsert of its row may fail
RunResolveStep ==
    \E p \in StoreProposals, r \in RunHandlers, dbOk \in BOOLEAN :
        /\ FirstIdle(RunHandlers, r)
        /\ RunResolve(p, r, TRUE, dbOk)

RunTallyStep ==
    \E p \in StoreProposals, r \in RunHandlers :
        RunTally(p, r, TRUE, TRUE, TRUE, TRUE)

InitRun ==
    /\ EmptyStore
    /\ NoAudit
    /\ now = 0
    /\ deadline = [p \in Proposals |-> 1]
    /\ lastOp = NoOp
    /\ probe = NoProbe
    /\ inflight = [h \in RateHandlers \cup RunHandlers |-> NoRequest]
    /\ SchedulerAtStart
    /\ NoBackup

NextRun ==
    \/ RunArriveStep
    \/ RateValidateStep
    \/ RateWriteStep
    \/ DeadlinePasses
    \/ RunResolveStep
    \/ RunTallyStep

SpecRun == InitRun /\ [][NextRun]_vars

\* C36: from a proposal's deadline on, no step changes the proposal's votes,
\* delegations or participants in the store
C36_NoWriteFromDeadlineOn ==
    [][\A p \in StoreProposals :
          now >= deadline[p]
             => /\ votes'[p] = votes[p]
                /\ delegations'[p] = delegations[p]
                /\ participants'[p] = participants[p]]_vars

\* C33: a tally row with status completed has a total power cast that is at
\* most its total voting power
C33_CastWithinTotalPower ==
    \A p \in Proposals :
        tallyAudit[p].status = "completed"
            => tallyAudit[p].totalVotesCast <= tallyAudit[p].totalVotingPower

\* C40: the voting powers a run's tally step computes with are the ones the
\* resolution step of that run returned
C40_TallyUsesOwnResolution ==
    [][\A r \in RunHandlers :
          (/\ inflight[r].pc = "tally"
           /\ inflight'[r] = NoRequest
           /\ lastOp'.tally.computed)
             => lastOp'.tally.usedPowers = inflight[r].votingPowers]_vars

----------------------------------------------------------------------------
(* SpecLive: the scheduler for as long as the server runs.  Proposals are   *)
(* created while the scheduler is running, the process may be restarted     *)
(* (its timers are lost and startProposalScheduler runs a cycle at once),   *)
(* and the cycles go on after the last hour the clock counts: from MaxHour  *)
(* on, which is later than every deadline, the clock stands for every later *)
(* hour.  A proposal's runs fail at most MaxFaults times.                   *)

MaxFaults == 1

MaxRestarts == 1

\* the hours between a proposal's creation and its deadline
Leads == {1, CHECK_INTERVAL_HOURS + 1}

\* POST /create: a row is inserted into table proposals, its deadline at
\* least an hour ahead
CreateProposal(p, d) ==
    /\ p \notin DOMAIN deadline
    /\ d > now
    /\ d <= MaxDeadline
    /\ deadline' = hset(deadline, p, d)
    /\ UNCHANGED <<storeVars, auditVars, now, lastOp, restVars>>

\* the process is restarted: timers, activeTimeouts and the runs in progress
\* are gone, and startProposalScheduler runs a cycle immediately
Restart ==
    /\ sched.restarts < MaxRestarts
    /\ sched' = [sched EXCEPT
                    !.phase = "idle",
                    !.nextCycle = now,
                    !.queue = << >>,
                    !.due = {},
                    !.ran = {},
                    !.started = [p \in Proposals |-> 0],
                    !.timers = [p \in Proposals |-> 0],
                    !.activeTimeouts = {},
                    !.restarts = @ + 1]
    /\ UNCHANGED <<storeVars, auditVars, clockVars, lastOp, probe, inflight, backupVars>>

\* the interval timer of startProposalScheduler comes due in one of the hours
\* the clock no longer counts
LateCycleDue ==
    /\ now = MaxHour
    /\ sched.phase = "idle"
    /\ sched.nextCycle > now
    /\ \A p \in Proposals : sched.started[p] = 0
    /\ sched' = [sched EXCEPT !.nextCycle = now]
    /\ UNCHANGED <<storeVars, auditVars, clockVars, lastOp, probe, inflight, backupVars>>

\* no proposal's runs have failed more than MaxFaults times after the step
WithinFaults == \A p \in Proposals : sched'.failures[p] <= MaxFaults

\* a cycle whose queries are answered
CycleBeginAnswered == CycleBegin /\ sched'.queried

LiveSweepStep == SweepStep /\ WithinFaults

LiveStartedRunStep == StartedRunStep /\ WithinFaults

LiveTimerFires == TimerFires /\ WithinFaults

\* the proposal followed is created at any hour (the scheduler treats each
\* proposal on its own: one timer per row, and a sweep that goes on to the
\* next row whatever the run of a row did)
LiveCreateStep ==
    \E p \in StoreProposals, lead \in Leads : CreateProposal(p, now + lead)

InitLive ==
    /\ EmptyStore
    /\ NoAudit
    /\ now = 0
    /\ deadline = EmptyMap
    /\ lastOp = NoOp
    /\ probe = NoProbe
    /\ NoRequests
    /\ SchedulerAtStart
    /\ NoBackup

NextLive ==
    \/ LiveCreateStep
    \/ CycleBegin
    \/ LiveSweepStep
    \/ ScheduleStep
    \/ LiveStartedRunStep
    \/ LiveTimerFires
    \/ Tick
    \/ LateCycleDue
    \/ Restart

\* the event loop runs every callback that is due and time goes on (weak
\* fairness of the scheduler's steps); the queries of a cycle are answered
\* again and again (strong fairness of the answered cycle)
LiveFairness ==
    /\ WF_vars(Tick)
    /\ WF_vars(LateCycleDue)
    /\ SF_vars(CycleBeginAnswered)
    /\ WF_vars(LiveSweepStep)
    /\ WF_vars(ScheduleStep)
    /\ WF_vars(LiveStartedRunStep)
    /\ WF_vars(LiveTimerFires)

SpecLive == InitLive /\ [][NextLive]_vars /\ LiveFairness

\* C38: every proposal whose deadline has passed eventually has a resolution
\* row and a tally row with status completed
C38_ExpiredEventuallyCompleted ==
    \A p \in Proposals :
        (p \in DOMAIN deadline /\ deadline[p] < now)
            ~> (/\ resolutionAudit[p].status = "completed"
                /\ tallyAudit[p].status = "completed")

\* a proposal past its deadline with one failed run behind it, completed by
\* the run that a sweep made for it after the process was restarted
C38_Witness ==
    \E p \in DOMAIN deadline :
        /\ deadline[p] < now
        /\ sched.phase = "sweep"
        /\ sched.restarts = 1
        /\ sched.failures[p] = 1
        /\ sched.invocations[p] = 2
        /\ p \in sched.ran
        /\ lastOp.op = "processProposal"
        /\ lastOp.proposal = p
        /\ resolutionAudit[p].status = "completed"
        /\ tallyAudit[p].status = "completed"

============================================================================
